---- MODULE Spec2Model ----
(***************************************************************************)
(* LocalGhost authorization kernel: token manager, permission store,       *)
(* consent handler, authorization middleware and the served application.   *)
(*                                                                         *)
(* Conventions.                                                            *)
(*   - A Python Optional is a set: {} is None, {v} is a value.             *)
(*   - A Python str that holds JSON text is a sequence of lexical tokens   *)
(*     (strings); a list of str is a sequence of strings.  Both are        *)
(*     sequences of strings, and they differ.                              *)
(*   - Time is counted in units of five minutes (an hour is 12 units).     *)
(*   - Coroutines interleave at their await points.  All of them share one *)
(*     database connection, so a statement's effect is seen by every later *)
(*     statement, committed or not: an action below is a statement, the    *)
(*     commit that follows it, and the code up to the next statement.      *)
(***************************************************************************)
EXTENDS Integers, Sequences, FiniteSets, TLC

VARIABLES
    now,          \* the wall clock (time.time / datetime.now)
    minted,       \* tokens issued so far, each with the call that issued it
    validated,    \* TokenManager.validate_token calls made so far (latest kept)
    permissions,  \* the rows of table permissions
    next_id,      \* the AUTOINCREMENT counter of table permissions
    audit_log,    \* the rows of table audit_log, in insertion order
    ops,          \* the coroutines started so far: requests and store calls
    prompts,      \* the consent dialogs shown so far
    consent_handler, \* whether AuthMiddleware was built with a consent handler
    dialogs,         \* the dialogs show_consent_dialog has put on screen
    registry,        \* the PluginRegistry, with the calls made on it
    service          \* <data_dir>/.secret, the running TokenManager, the starts

vars == <<now, minted, validated, permissions, next_id, audit_log, ops, prompts,
          consent_handler, dialogs, registry, service>>

(***************************************************************************)
(* Bounds of the model.                                                    *)
(***************************************************************************)
MaxCalls == 3        \* store calls started in one behaviour of the store
MaxRequests == 2     \* requests sent in one behaviour of the middleware
MaxInFlight == 2     \* coroutines that are in flight at the same time
MaxDialogs == 2      \* dialogs shown in one behaviour of the prompter
MaxElapsed == 3      \* seconds a dialog on screen is followed for
MaxRegistryCalls == 4 \* register and unregister calls in one behaviour
MaxStarts == 3       \* starts of the service in one behaviour
MaxMinted == 1       \* tokens minted in one behaviour of the token manager

(***************************************************************************)
(* Program constants.                                                      *)
(***************************************************************************)
UnitsPerHour == 12               \* one hour, in units of five minutes
TemporaryLifetime == 1           \* timedelta(minutes=5)
token_expiry_hours == 24         \* Settings.token_expiry_hours
default_grant_duration_hours == 8 \* Settings.default_grant_duration_hours

None == {}
Some(v) == {v}
TheValue(opt) == CHOOSE v \in opt : TRUE

(***************************************************************************)
(* json.dumps / json.loads on the values the program serialises.           *)
(***************************************************************************)
Digits == <<"0", "1", "2", "3", "4", "5", "6", "7", "8", "9">>

RECURSIVE NumToText(_)
NumToText(n) ==
    IF n < 10 THEN <<Digits[n + 1]>>
    ELSE NumToText(n \div 10) \o <<Digits[(n % 10) + 1]>>

DigitValue(d) == (CHOOSE i \in 1..10 : Digits[i] = d) - 1

RECURSIVE TextToNum(_)
TextToNum(t) ==
    IF Len(t) = 1 THEN DigitValue(t[1])
    ELSE 10 * TextToNum(SubSeq(t, 1, Len(t) - 1)) + DigitValue(t[Len(t)])

StrToText(s) == <<"\"", s, "\"">>
TextToStr(t) == t[2]

RECURSIVE ItemsToText(_)
ItemsToText(l) ==
    IF l = <<>> THEN <<>>
    ELSE IF Len(l) = 1 THEN StrToText(l[1])
    ELSE StrToText(l[1]) \o <<", ">> \o ItemsToText(Tail(l))

\* json.dumps(list of str)
JsonDumpsList(l) == <<"[">> \o ItemsToText(l) \o <<"]">>

RECURSIVE TextToItems(_)
TextToItems(t) ==
    IF t = <<>> THEN <<>>
    ELSE IF Len(t) = 3 THEN <<TextToStr(t)>>
    ELSE <<TextToStr(SubSeq(t, 1, 3))>> \o TextToItems(SubSeq(t, 5, Len(t)))

\* json.loads of the text of a list of str
JsonLoadsList(t) == TextToItems(SubSeq(t, 2, Len(t) - 1))

JsonNull == <<"null">>
OptNumToText(opt) == IF opt = None THEN JsonNull ELSE NumToText(TheValue(opt))
TextToOptNum(t) == IF t = JsonNull THEN None ELSE Some(TextToNum(t))

(***************************************************************************)
(* TokenPayload and TokenManager (auth/tokens.py).                         *)
(***************************************************************************)
Keys == {"K1", "K2"}
ExpiryHours == {None, Some(0), Some(1)}

\* The (client_id, endpoint, permissions) a token is minted for.
TokenInputs ==
    {<<"c1", "/demo/system-info", <<"read", "write">>>>,
     <<"c2", "/permissions", <<>>>>,
     <<"c1", "/permissions", <<"access">>>>}

\* TokenPayload.to_dict followed by json.dumps: the text of a JSON object,
\* member by member.
to_dict(client_id, endpoint, perms, issued_at, expires_at) ==
    [client_id |-> StrToText(client_id),
     endpoint |-> StrToText(endpoint),
     permissions |-> JsonDumpsList(perms),
     issued_at |-> NumToText(issued_at),
     expires_at |-> OptNumToText(expires_at)]

\* json.loads followed by TokenPayload.from_dict, on the text of an object
\* that has the four required members.
from_dict(data) ==
    [client_id |-> TextToStr(data.client_id),
     endpoint |-> TextToStr(data.endpoint),
     permissions |-> JsonLoadsList(data.permissions),
     issued_at |-> TextToNum(data.issued_at),
     expires_at |-> IF "expires_at" \in DOMAIN data
                    THEN TextToOptNum(data.expires_at) ELSE None]

RequiredMembers == {"client_id", "endpoint", "permissions", "issued_at"}

\* Fernet(key).encrypt(data): the ciphertext carries a MAC under the key.
FernetEncrypt(key, plaintext) == [mac_key |-> key, plaintext |-> plaintext]

\* Fernet(key).decrypt(token): {} stands for InvalidToken.
FernetDecrypt(key, token) ==
    IF "mac_key" \in DOMAIN token /\ token.mac_key = key
    THEN Some(token.plaintext) ELSE None

\* A faulty TokenExpiresAt: the expiry asked for is dropped.
TokenExpiresAtNever(t, expires_in_hours) == None

\* expires_at of a token minted at time t.
TokenExpiresAt(t, expires_in_hours) ==
    IF expires_in_hours # None
    THEN Some(t + TheValue(expires_in_hours) * UnitsPerHour) ELSE None

generate_token(key, client_id, endpoint, perms, expires_in_hours, t) ==
    FernetEncrypt(key,
        [json |-> "object",
         members |-> to_dict(client_id, endpoint, perms, t,
                             TokenExpiresAt(t, expires_in_hours))])

\* time.time() > payload.expires_at
TokenExpired(payload, t) ==
    payload.expires_at # None /\ t > TheValue(payload.expires_at)

\* validate_token: [raised, claims]; claims = {} is the return value None.
validate_token(key, token, t) ==
    LET data == FernetDecrypt(key, token) IN
    IF data = None THEN [raised |-> FALSE, claims |-> None]            \* InvalidToken
    ELSE LET text == TheValue(data) IN
         IF text.json = "invalid" THEN [raised |-> FALSE, claims |-> None] \* JSONDecodeError
         ELSE IF text.json # "object" THEN [raised |-> TRUE, claims |-> None] \* TypeError
         ELSE IF ~(RequiredMembers \subseteq DOMAIN text.members)
              THEN [raised |-> FALSE, claims |-> None]                  \* KeyError
         ELSE LET payload == from_dict(text.members) IN
              IF TokenExpired(payload, t)
              THEN [raised |-> FALSE, claims |-> None]
              ELSE [raised |-> FALSE, claims |-> Some(payload)]

\* Strings that no TokenManager produced.
GarbageTokens == {[garbage |-> "invalid-token-data"], [garbage |-> ""]}

\* Ciphertexts under a key whose plaintext is not a TokenPayload.
MalformedPlaintexts ==
    {[json |-> "invalid", members |-> [raw |-> <<"x">>]],
     [json |-> "array", members |-> [raw |-> <<"[", "]">>]],
     [json |-> "object", members |-> [client_id |-> StrToText("c1")]]}

ForgedTokens == {FernetEncrypt(k, p) : k \in Keys, p \in MalformedPlaintexts}

(***************************************************************************)
(* The token manager on its own: tokens are minted and validated under the *)
(* keys of two managers while the clock advances.                          *)
(***************************************************************************)
TokenReadings == {0, 1, UnitsPerHour, UnitsPerHour + 1}

InitStore ==
    /\ now = 0
    /\ minted = {}
    /\ validated = None
    /\ permissions = {}
    /\ next_id = 1
    /\ audit_log = <<>>
    /\ ops = <<>>
    /\ prompts = <<>>
    /\ dialogs = <<>>
    /\ registry = [plugins |-> <<>>, endpoints |-> <<>>,
                   public_routes |-> <<>>, protected_routes |-> <<>>,
                   hooks |-> <<>>, calls |-> <<>>]
    /\ service = [secret_file |-> {}, secret_mode |-> {}, creating |-> {},
                  token_manager |-> {}, starts |-> <<>>,
                  minted_in |-> 0, validated_in |-> 0]

InitCommon == InitStore /\ consent_handler = TRUE

\* A call of generate_token.
Mint(k, c, e, p, h) ==
    /\ Cardinality(minted) < MaxMinted
    /\ minted' = minted \cup
         {[token |-> generate_token(k, c, e, p, h, now), key |-> k,
           client_id |-> c, endpoint |-> e, permissions |-> p,
           expires_in_hours |-> h, issued_at |-> now]}
    /\ UNCHANGED <<now, validated, permissions, next_id, audit_log, ops, prompts, consent_handler, dialogs, registry, service>>

\* A call of validate_token under key k, on any string.
Validate(k, tok) ==
    /\ validated' = Some([key |-> k, token |-> tok, at |-> now,
                          result |-> validate_token(k, tok, now)])
    /\ UNCHANGED <<now, minted, permissions, next_id, audit_log, ops, prompts, consent_handler, dialogs, registry, service>>

TickToken ==
    /\ \E t \in TokenReadings : t > now /\ now' = t
    /\ UNCHANGED <<minted, validated, permissions, next_id, audit_log, ops, prompts, consent_handler, dialogs, registry, service>>

NextToken ==
    \/ \E k \in Keys, x \in TokenInputs, h \in ExpiryHours :
          Mint(k, x[1], x[2], x[3], h)
    \/ \E k \in Keys, tok \in {m.token : m \in minted} \cup GarbageTokens \cup ForgedTokens :
          Validate(k, tok)
    \/ TickToken

SpecToken == InitCommon /\ [][NextToken]_vars

(***************************************************************************)
(* PermissionStore (auth/permissions.py).                                  *)
(***************************************************************************)
GrantTypes == {"temporary", "session", "timed", "permanent"}

\* datetime.isoformat() of a UTC time, and datetime.fromisoformat().
isoformat(t) == NumToText(t) \o <<"+00:00">>
fromisoformat(text) == TextToNum(SubSeq(text, 1, Len(text) - 1))

\* json.dumps of the details of an audit entry.
DetailsText(fn, grant_type) ==
    IF fn = "grant"
    THEN <<"{">> \o StrToText("grant_type") \o <<": ">> \o StrToText(grant_type) \o <<"}">>
    ELSE <<"{", "}">>

\* expires_at as grant_permission computes it at time t.
GrantExpiresAt(grant_type, duration_hours, t) ==
    IF grant_type = "timed" /\ duration_hours # None /\ duration_hours # Some(0)
    THEN Some(t + TheValue(duration_hours) * UnitsPerHour)
    ELSE IF grant_type = "temporary" THEN Some(t + TemporaryLifetime)
    ELSE None

\* The parameters of the INSERT OR REPLACE statement of grant_permission.
GrantRow(client_id, endpoint, a, t) ==
    LET expires_at == GrantExpiresAt(a.grant_type, a.duration_hours, t) IN
    [client_id |-> client_id,
     client_name |-> a.client_name,
     endpoint |-> endpoint,
     permissions |-> JsonDumpsList(a.permissions),
     grant_type |-> a.grant_type,
     granted_at |-> isoformat(t),
     expires_at |-> IF expires_at # None THEN Some(isoformat(TheValue(expires_at)))
                    ELSE None,
     token |-> a.token]

WithId(row, id) ==
    [id |-> id, client_id |-> row.client_id, client_name |-> row.client_name,
     endpoint |-> row.endpoint, permissions |-> row.permissions,
     grant_type |-> row.grant_type, granted_at |-> row.granted_at,
     expires_at |-> row.expires_at, token |-> row.token]

\* A faulty InsertOrReplace: a plain INSERT into a table without the UNIQUE
\* constraint.
InsertPlain(table, row, id) == table \cup {WithId(row, id)}

\* INSERT OR REPLACE under UNIQUE(client_id, endpoint): the rows that
\* conflict with the new one are deleted, then the new row is inserted.
InsertOrReplace(table, row, id) ==
    {r \in table : ~(r.client_id = row.client_id /\ r.endpoint = row.endpoint)}
        \cup {WithId(row, id)}

\* SELECT * FROM permissions WHERE client_id = ? AND endpoint = ?, fetchone().
SelectOne(table, client_id, endpoint) ==
    LET found == {r \in table : r.client_id = client_id /\ r.endpoint = endpoint} IN
    IF found = {} THEN None
    ELSE Some(CHOOSE r \in found : \A q \in found : r.id <= q.id)

\* A faulty DeletePair: the DELETE matches no row.
DeletePairNothing(table, client_id, endpoint) == table

\* DELETE FROM permissions WHERE client_id = ? AND endpoint = ?
DeletePair(table, client_id, endpoint) ==
    {r \in table : ~(r.client_id = client_id /\ r.endpoint = endpoint)}

\* A faulty DeleteClient: only the rows of one endpoint are deleted.
DeleteClientOneEndpoint(table, client_id) ==
    {r \in table : ~(r.client_id = client_id /\ r.endpoint = "/demo/system-info")}

\* DELETE FROM permissions WHERE client_id = ?
DeleteClient(table, client_id) == {r \in table : r.client_id # client_id}

\* Faulty expiry tests: one that never finds a row expired, and one that
\* finds it expired at the very instant expires_at.
RowNeverExpired(row, t) == FALSE
RowExpiredAtDeadline(row, t) ==
    row.expires_at # None /\ t >= TextToNum(SubSeq(TheValue(row.expires_at), 1,
                                                   Len(TheValue(row.expires_at)) - 1))

\* The expiry test of check_permission at time t.
RowExpired(row, t) ==
    row.expires_at # None /\ t > fromisoformat(TheValue(row.expires_at))

\* A faulty AuditEntry: revoke_all_for_client is logged as a plain 'revoke'.
AuditEntryRevokeOnly(o, t) ==
    [timestamp |-> isoformat(t),
     client_id |-> o.client_id,
     endpoint |-> IF o.fn = "revoke_all" THEN "*" ELSE o.endpoint,
     action |-> IF o.fn \in {"check", "revoke_all"} THEN "revoke" ELSE o.fn,
     details |-> DetailsText(o.fn,
                    IF o.args # None THEN TheValue(o.args).grant_type ELSE "")]

\* The audit entry _log_action builds at time t for the store function fn.
AuditEntry(o, t) ==
    [timestamp |-> isoformat(t),
     client_id |-> o.client_id,
     endpoint |-> IF o.fn = "revoke_all" THEN "*" ELSE o.endpoint,
     action |-> IF o.fn = "check" THEN "revoke" ELSE o.fn,
     details |-> DetailsText(o.fn,
                    IF o.args # None THEN TheValue(o.args).grant_type ELSE "")]

(***************************************************************************)
(* Coroutines.  ops[i] is the i-th coroutine started: a request in         *)
(* AuthMiddleware.dispatch, a request to the served application, or a      *)
(* direct call of a PermissionStore method.  pc names the await it is at.  *)
(***************************************************************************)
BlankOp ==
    [op |-> "", app |-> "", pc |-> "done", fn |-> "",
     client_id |-> "", endpoint |-> "",
     args |-> None,        \* the arguments of grant_permission
     headers |-> None,     \* the request's headers
     row |-> None,         \* parameters of the pending INSERT OR REPLACE
     selected |-> None,    \* the row the SELECT fetched
     entry |-> None,       \* parameters of the pending audit INSERT
     result |-> None,      \* what check_permission returned
     at |-> None,          \* the clock reading grant_permission took
     checked_at |-> None,  \* the clock reading check_permission took
     seen |-> {},          \* the coroutines that had returned when this one began
     outcome |-> "", status |-> 0, handler |-> FALSE,
     attached |-> None,    \* request.state.permissions
     body |-> None,        \* the body of the 401 response
     prompted |-> FALSE,   \* a consent dialog was shown for this request
     consent |-> "",       \* the ConsentResult the dialog returned
     failed |-> "",        \* the awaited call that raised, if one did
     fallback |-> FALSE,   \* the native dialog failed and tkinter was shown
     button |-> ""]        \* the button pressed on the tkinter fallback

Done == {i \in 1..Len(ops) : ops[i].pc = "done"}
InFlight == {i \in 1..Len(ops) : ops[i].pc # "done"}
CanStart(max) == Len(ops) < max /\ Cardinality(InFlight) < MaxInFlight

\* The (client_id, endpoint) pairs of direct store calls.
StorePairs == {<<"c1", "/demo/system-info">>, <<"c1", "/demo/execute">>,
               <<"c2", "/demo/system-info">>}

\* The (grant_type, permissions, duration_hours) of direct grant calls.
GrantCalls ==
    {<<"temporary", <<"read">>, None>>,
     <<"session", <<"read">>, None>>,
     <<"timed", <<"read", "write">>, Some(default_grant_duration_hours)>>,
     <<"permanent", <<"read", "write">>, None>>}

\* The calls made for a pair: every kind for the first pair, a permanent
\* grant for the others.
GrantCallsFor(x) ==
    IF x = <<"c1", "/demo/system-info">> THEN GrantCalls
    ELSE {call \in GrantCalls : call[1] = "permanent"}

\* The pairs that are checked and revoked, and the clients that are revoked
\* as a whole.
QueriedPairs == {x \in StorePairs : x[1] = "c1"}
RevokedClients == {"c1"}

StoreReadings == {0, 1, default_grant_duration_hours * UnitsPerHour + 1}

\* await store.grant_permission(...): the call takes the time and builds
\* the row, then awaits the INSERT OR REPLACE.
StartGrant(c, e, call) ==
    /\ CanStart(MaxCalls)
    /\ LET a == [permissions |-> call[2], grant_type |-> call[1],
                 token |-> [garbage |-> "token-" \o ToString(Len(ops) + 1)],
                 client_name |-> None, duration_hours |-> call[3]] IN
       ops' = Append(ops, [BlankOp EXCEPT !.op = "grant", !.fn = "grant",
                  !.pc = "insert", !.client_id = c, !.endpoint = e,
                  !.args = Some(a), !.at = Some(now),
                  !.row = Some(GrantRow(c, e, a, now)), !.seen = Done])
    /\ UNCHANGED <<now, minted, validated, permissions, next_id, audit_log, prompts, consent_handler, dialogs, registry, service>>

StartCheck(c, e) ==
    /\ CanStart(MaxCalls)
    /\ ops' = Append(ops, [BlankOp EXCEPT !.op = "check", !.fn = "check",
                  !.pc = "select", !.client_id = c, !.endpoint = e, !.seen = Done])
    /\ UNCHANGED <<now, minted, validated, permissions, next_id, audit_log, prompts, consent_handler, dialogs, registry, service>>

StartRevoke(c, e) ==
    /\ CanStart(MaxCalls)
    /\ ops' = Append(ops, [BlankOp EXCEPT !.op = "revoke", !.fn = "revoke",
                  !.pc = "delete", !.client_id = c, !.endpoint = e, !.seen = Done])
    /\ UNCHANGED <<now, minted, validated, permissions, next_id, audit_log, prompts, consent_handler, dialogs, registry, service>>

StartRevokeAll(c) ==
    /\ CanStart(MaxCalls)
    /\ ops' = Append(ops, [BlankOp EXCEPT !.op = "revoke_all", !.fn = "revoke_all",
                  !.pc = "delete_all", !.client_id = c, !.endpoint = "*",
                  !.seen = Done])
    /\ UNCHANGED <<now, minted, validated, permissions, next_id, audit_log, prompts, consent_handler, dialogs, registry, service>>

(***************************************************************************)
(* AuthMiddleware (auth/middleware.py) and ConsentHandler                  *)
(* (consent/handler.py).                                                   *)
(***************************************************************************)
ServerKey == "K1"      \* the key of the service's TokenManager

StartsWith(str, prefix) ==
    Len(str) >= Len(prefix) /\ SubSeq(str, 1, Len(prefix)) = prefix

\* AuthMiddleware.public_paths, the default of __init__.
public_paths == {"/health", "/capabilities", "/docs", "/openapi.json"}

\* A faulty IsPublicPath: the paths under /public/ are forgotten.
IsListedPath(path) == path \in {"/health", "/capabilities", "/docs", "/openapi.json"}

\* The first test of dispatch.
IsPublicPath(path) == path \in public_paths \/ StartsWith(path, "/public/")

DigitChars == {Digits[i] : i \in 1..10}
IsDecimal(str) ==
    Len(str) > 0 /\ \A i \in 1..Len(str) : SubSeq(str, i, i) \in DigitChars

\* int(str), for a string of decimal digits.
RECURSIVE StrToInt(_)
StrToInt(str) ==
    IF Len(str) = 1 THEN DigitValue(str)
    ELSE 10 * StrToInt(SubSeq(str, 1, Len(str) - 1))
            + DigitValue(SubSeq(str, Len(str), Len(str)))

\* hashlib.sha256(data).hexdigest()[:16]: a tag of the data hashed, so that
\* different data give different digests.
Sha256Hex16(data) == "sha256:" \o data

\* TokenManager.generate_client_id
generate_client_id(program_name, pid) ==
    Sha256Hex16(IF pid # None
                THEN program_name \o ":" \o ToString(TheValue(pid))
                ELSE program_name)

HeaderOr(header, default) == IF header # None THEN TheValue(header) ELSE default

\* AuthMiddleware._identify_client: raised stands for the ValueError of int().
identify_client(headers) ==
    IF headers.x_client_id # None /\ TheValue(headers.x_client_id) # ""
    THEN [raised |-> FALSE, client_id |-> TheValue(headers.x_client_id)]
    ELSE LET process_name == HeaderOr(headers.x_process_name, "unknown")
             process_pid == headers.x_process_pid IN
         IF process_pid # None /\ TheValue(process_pid) # ""
         THEN IF IsDecimal(TheValue(process_pid))
              THEN [raised |-> FALSE,
                    client_id |-> generate_client_id(process_name,
                                     Some(StrToInt(TheValue(process_pid))))]
              ELSE [raised |-> TRUE, client_id |-> ""]
         ELSE [raised |-> FALSE, client_id |-> generate_client_id(process_name, None)]

\* return await call_next(request)
CallNext(o, outcome, perms) ==
    [o EXCEPT !.pc = "done", !.outcome = outcome, !.handler = TRUE,
              !.status = 200, !.attached = perms]

\* An exception that leaves dispatch: the server answers 500.
Raise(o) == [o EXCEPT !.pc = "done", !.outcome = "ERROR", !.status = 500]

\* A faulty Deny: the response is 403 Forbidden.
DenyForbidden(o) ==
    [o EXCEPT !.pc = "done", !.outcome = "DENY", !.status = 403,
              !.body = Some([error |-> "unauthorized",
                             client_id |-> o.client_id, endpoint |-> o.endpoint])]

\* The JSONResponse that ends dispatch.
Deny(o) ==
    [o EXCEPT !.pc = "done", !.outcome = "DENY", !.status = 401,
              !.body = Some([error |-> "unauthorized",
                             client_id |-> o.client_id, endpoint |-> o.endpoint])]

\* A faulty TokenAdmits: any valid token admits, whoever it names.
TokenAdmitsAnyClient(v, client_id) == v.claims # None

\* if payload and payload.client_id == client_id
TokenAdmits(v, client_id) ==
    v.claims # None /\ TheValue(v.claims).client_id = client_id

\* dispatch from its first line to its first await, at time t.
dispatch(o, t) ==
    IF IsPublicPath(o.endpoint) THEN CallNext(o, "PUBLIC_PASS", None)
    ELSE LET headers == TheValue(o.headers)
             id == identify_client(headers) IN
    IF id.raised THEN Raise(o)
    ELSE LET req == [o EXCEPT !.client_id = id.client_id]
             auth == headers.authorization IN
    IF auth # None /\ StartsWith(TheValue(auth).lead, "Bearer ")
    THEN LET v == validate_token(ServerKey, TheValue(auth).credentials, t) IN
         IF v.raised THEN Raise(req)
         ELSE IF TokenAdmits(v, id.client_id)
         THEN CallNext(req, "TOKEN_PASS", Some(TheValue(v.claims).permissions))
         ELSE [req EXCEPT !.pc = "select", !.fn = "check"]
    ELSE [req EXCEPT !.pc = "select", !.fn = "check"]

\* dispatch after check_permission returned `stored`.
AfterCheck(o, stored) ==
    IF stored # None
    THEN CallNext([o EXCEPT !.result = stored], "STORE_PASS",
                  Some(TheValue(stored).permissions))
    ELSE IF consent_handler
    THEN [o EXCEPT !.pc = "dialog", !.fn = "", !.prompted = TRUE, !.result = None]
    ELSE Deny([o EXCEPT !.result = None, !.fn = ""])

\* The ConsentPrompt that ConsentHandler.__call__ builds.
ConsentPrompt(o) ==
    [client_id |-> o.client_id,
     client_name |-> HeaderOr(TheValue(o.headers).x_process_name, "Unknown Application"),
     endpoint |-> o.endpoint,
     permissions |-> <<"access">>]

ConsentResults == {"denied", "allow_once", "allow_session", "allow_timed",
                   "allow_permanent"}

\* show_consent_dialog: the results its backends (osascript, PowerShell,
\* zenity, kdialog, tkinter) return.
show_consent_dialog == {"denied", "allow_once", "allow_permanent"}

\* A faulty GrantTypeOf: only the two allowing results of the shipped
\* dialogs are told apart.
GrantTypeOnceOrPermanent(result) ==
    IF result = "allow_permanent" THEN "permanent" ELSE "temporary"

\* grant_type_map.get(result, GrantType.TEMPORARY)
GrantTypeOf(result) ==
    CASE result = "allow_once" -> "temporary"
      [] result = "allow_session" -> "session"
      [] result = "allow_timed" -> "timed"
      [] result = "allow_permanent" -> "permanent"
      [] OTHER -> "temporary"

\* The duration ConsentHandler.__call__ passes to the token and the grant.
DurationOf(grant_type) ==
    IF grant_type = "timed" THEN Some(default_grant_duration_hours)
    ELSE IF grant_type = "permanent" THEN None
    ELSE Some(token_expiry_hours)

\* ConsentHandler.__call__ after an allowing dialog result, up to the await
\* of grant_permission's INSERT OR REPLACE, at time t.
ConsentGrant(o, result, t) ==
    LET prompt == ConsentPrompt(o)
        grant_type == GrantTypeOf(result)
        duration == DurationOf(grant_type)
        token == generate_token(ServerKey, o.client_id, o.endpoint,
                                prompt.permissions, duration, t)
        a == [permissions |-> prompt.permissions, grant_type |-> grant_type,
              token |-> token, client_name |-> Some(prompt.client_name),
              duration_hours |-> duration] IN
    [o EXCEPT !.consent = result, !.pc = "insert", !.fn = "grant",
              !.args = Some(a), !.at = Some(t),
              !.row = Some(GrantRow(o.client_id, o.endpoint, a, t))]

\* dispatch after the consent handler returned its dict.
AfterGrant(o) ==
    CallNext(o, "CONSENT_PASS", Some(TheValue(o.args).permissions))

\* A PermissionStore method returns `value` to its caller.
Return(o, value) ==
    IF o.op = "dispatch"
    THEN IF o.fn = "check" THEN AfterCheck(o, value) ELSE AfterGrant(o)
    ELSE [o EXCEPT !.pc = "done", !.result = value]

\* The dialogs shown, after coroutine o moved on to o2.
PromptsAfter(o, o2) ==
    IF o2.pc = "dialog" /\ o.pc # "dialog"
    THEN Append(prompts, ConsentPrompt(o2)) ELSE prompts

(***************************************************************************)
(* The steps of the coroutines.                                            *)
(***************************************************************************)
\* mint record of the token a consent grant generated at time t
MintRecord(o, t) ==
    LET a == TheValue(o.args) IN
    [token |-> a.token, key |-> ServerKey, client_id |-> o.client_id,
     endpoint |-> o.endpoint, permissions |-> a.permissions,
     expires_in_hours |-> a.duration_hours, issued_at |-> t]

\* check_permission: the SELECT, the expiry test, and either the return or
\* the call of revoke_permission up to its DELETE.
ExecSelect(i) ==
    /\ ops[i].pc = "select"
    /\ LET o == [ops[i] EXCEPT !.checked_at = Some(now)]
           sel == SelectOne(permissions, o.client_id, o.endpoint)
           o2 == IF sel = None THEN Return(o, None)
                 ELSE IF RowExpired(TheValue(sel), now)
                      THEN [o EXCEPT !.selected = sel, !.pc = "delete"]
                      ELSE Return([o EXCEPT !.selected = sel], sel) IN
       /\ ops' = [ops EXCEPT ![i] = o2]
       /\ prompts' = PromptsAfter(ops[i], o2)
    /\ UNCHANGED <<now, minted, validated, permissions, next_id, audit_log,
                   consent_handler, dialogs, registry, service>>

\* revoke_permission: the DELETE and its commit, then _log_action up to its
\* INSERT.
ExecDelete(i) ==
    /\ ops[i].pc = "delete"
    /\ permissions' = DeletePair(permissions, ops[i].client_id, ops[i].endpoint)
    /\ ops' = [ops EXCEPT ![i].pc = "log",
                          ![i].entry = Some(AuditEntry(ops[i], now))]
    /\ UNCHANGED <<now, minted, validated, next_id, audit_log, prompts, consent_handler, dialogs, registry, service>>

\* revoke_all_for_client: the DELETE and its commit, then _log_action up to
\* its INSERT.
ExecDeleteAll(i) ==
    /\ ops[i].pc = "delete_all"
    /\ permissions' = DeleteClient(permissions, ops[i].client_id)
    /\ ops' = [ops EXCEPT ![i].pc = "log",
                          ![i].entry = Some(AuditEntry(ops[i], now))]
    /\ UNCHANGED <<now, minted, validated, next_id, audit_log, prompts, consent_handler, dialogs, registry, service>>

\* grant_permission: the INSERT OR REPLACE and its commit, then _log_action
\* up to its INSERT.
ExecInsert(i) ==
    /\ ops[i].pc = "insert"
    /\ permissions' = InsertOrReplace(permissions, TheValue(ops[i].row), next_id)
    /\ next_id' = next_id + 1
    /\ ops' = [ops EXCEPT ![i].pc = "log",
                          ![i].entry = Some(AuditEntry(ops[i], now))]
    /\ UNCHANGED <<now, minted, validated, audit_log, prompts, consent_handler, dialogs, registry, service>>

\* _log_action: the INSERT INTO audit_log and its commit; the store method
\* returns None to its caller.
ExecLog(i) ==
    /\ ops[i].pc = "log"
    /\ audit_log' = Append(audit_log, TheValue(ops[i].entry))
    /\ LET o2 == Return(ops[i], None) IN
       /\ ops' = [ops EXCEPT ![i] = o2]
       /\ prompts' = PromptsAfter(ops[i], o2)
    /\ UNCHANGED <<now, minted, validated, permissions, next_id, consent_handler, dialogs, registry, service>>

\* show_consent_dialog returns `result` to ConsentHandler.__call__.
DialogAnswer(i, result) ==
    /\ ops[i].pc = "dialog"
    /\ LET o == [ops[i] EXCEPT !.consent = result]
           o2 == IF result = "denied" THEN Deny(o) ELSE ConsentGrant(o, result, now) IN
       /\ ops' = [ops EXCEPT ![i] = o2]
       /\ minted' = IF result = "denied" THEN minted
                    ELSE minted \cup {MintRecord(o2, now)}
    /\ UNCHANGED <<now, validated, permissions, next_id, audit_log, prompts,
                   consent_handler, dialogs, registry, service>>

(***************************************************************************)
(* The applications (server.py).                                           *)
(***************************************************************************)
\* The middleware create_app adds to the application.
create_app_middleware == {"CORSMiddleware"}

\* get_app: create_app(), and nothing added to it.
get_app_middleware == create_app_middleware

\* Requests reach AuthMiddleware.dispatch in an application built around
\* AuthMiddleware ("middleware"), and in the application run_server serves
\* ("served") when get_app installed it.
Guarded(app) == app = "middleware" \/ "AuthMiddleware" \in get_app_middleware

\* The router invokes the route handler.
Route(o) == [o EXCEPT !.pc = "done", !.outcome = "ROUTED", !.handler = TRUE,
                      !.status = 200]

NoHeaders ==
    [x_client_id |-> None, x_process_name |-> None, x_process_pid |-> None,
     authorization |-> None]
HeadersA == [NoHeaders EXCEPT !.x_client_id = Some("client-a")]
HeadersB == [NoHeaders EXCEPT !.x_process_name = Some("app"),
                              !.x_process_pid = Some("42")]
HeadersBadPid == [NoHeaders EXCEPT !.x_process_name = Some("app"),
                                   !.x_process_pid = Some("abc")]
Bearer(headers, token) ==
    [headers EXCEPT !.authorization = Some([lead |-> "Bearer ", credentials |-> token])]

ProtectedPaths == {"/demo/system-info", "/permissions"}
AGarbageToken == [garbage |-> "invalid-token-data"]

\* The requests clients send: <<application, path, headers>>.
Requests ==
    {<<"middleware", "/demo/system-info", h>> : h \in {HeadersA, HeadersB}}
    \cup {<<"middleware", p, Bearer(HeadersA, m.token)>> :
            p \in ProtectedPaths, m \in minted}
    \cup {<<"middleware", "/demo/system-info", Bearer(HeadersA, AGarbageToken)>>,
          <<"middleware", "/demo/system-info", HeadersBadPid>>,
          <<"middleware", "/health", Bearer(HeadersBadPid, AGarbageToken)>>,
          <<"middleware", "/public/x", NoHeaders>>,
          <<"served", "/permissions", NoHeaders>>,
          <<"served", "/health", NoHeaders>>}

\* A request arrives and runs to its first await; at most `max` coroutines
\* are started in one behaviour.
Arrive(max, app, path, headers) ==
    /\ CanStart(max)
    /\ LET o == [BlankOp EXCEPT !.op = IF Guarded(app) THEN "dispatch" ELSE "route",
                                !.app = app, !.endpoint = path,
                                !.headers = Some(headers), !.seen = Done]
           o2 == IF Guarded(app) THEN dispatch(o, now) ELSE Route(o) IN
       ops' = Append(ops, o2)
    /\ UNCHANGED <<now, minted, validated, permissions, next_id, audit_log, prompts,
                   consent_handler, dialogs, registry, service>>

Request(app, path, headers) == Arrive(MaxRequests, app, path, headers)

Readings == {0, 1, 2, token_expiry_hours * UnitsPerHour + 1}

Tick ==
    /\ \E t \in Readings : t > now /\ now' = t
    /\ UNCHANGED <<minted, validated, permissions, next_id, audit_log, ops, prompts,
                   consent_handler, dialogs, registry, service>>

TickStore ==
    /\ \E t \in StoreReadings : t > now /\ now' = t
    /\ UNCHANGED <<minted, validated, permissions, next_id, audit_log, ops, prompts,
                   consent_handler, dialogs, registry, service>>

Init == InitStore /\ consent_handler \in BOOLEAN

Next ==
    \/ \E r \in Requests : Request(r[1], r[2], r[3])
    \/ \E i \in 1..Len(ops) :
          \/ ExecSelect(i)
          \/ ExecDelete(i)
          \/ ExecInsert(i)
          \/ ExecLog(i)
          \/ \E result \in show_consent_dialog : DialogAnswer(i, result)
    \/ Tick

Spec == Init /\ [][Next]_vars

NextStore ==
    \/ \E x \in StorePairs : \E call \in GrantCallsFor(x) : StartGrant(x[1], x[2], call)
    \/ \E x \in QueriedPairs :
          \/ StartCheck(x[1], x[2])
          \/ StartRevoke(x[1], x[2])
    \/ \E c \in RevokedClients : StartRevokeAll(c)
    \/ \E i \in 1..Len(ops) :
          \/ ExecSelect(i)
          \/ ExecDelete(i)
          \/ ExecDeleteAll(i)
          \/ ExecInsert(i)
          \/ ExecLog(i)
    \/ TickStore

SpecStore == InitCommon /\ [][NextStore]_vars

(***************************************************************************)
(* grant_permission with every grant type and any duration_hours argument: *)
(* direct grant calls for one pair.                                        *)
(***************************************************************************)
MaxGrants == 2

\* duration_hours: float | None = None
DurationArguments == {None, Some(0), Some(1), Some(default_grant_duration_hours)}

AnyGrantCalls ==
    {<<grant_type, <<"read">>, duration_hours>> :
        grant_type \in GrantTypes, duration_hours \in DurationArguments}

StartAnyGrant(call) ==
    /\ Len(ops) < MaxGrants
    /\ StartGrant("c1", "/demo/system-info", call)

NextGrant ==
    \/ \E call \in AnyGrantCalls : StartAnyGrant(call)
    \/ \E i \in 1..Len(ops) :
          \/ ExecInsert(i)
          \/ ExecLog(i)
    \/ TickStore

SpecGrant == InitCommon /\ [][NextGrant]_vars

(***************************************************************************)
(* The consent handler with any ConsentResult, and the restart of the      *)
(* service (server.py, lifespan): one client sends requests to one path,   *)
(* with or without the tokens minted for it; the dialog is any function    *)
(* that returns a ConsentResult, as ConsentHandler.__call__ accepts.       *)
(***************************************************************************)
HandlerPath == "/demo/system-info"

HandlerRequests ==
    {HeadersA} \cup {Bearer(HeadersA, m.token) : m \in minted}

HandlerReadings == {0, 2}

\* A request of the client arrives.
HandlerRequest(headers) == Arrive(MaxCalls, "middleware", HandlerPath, headers)

\* The service is shut down and started again: lifespan closes the store,
\* then loads the persisted secret, builds the TokenManager on it and opens
\* the store on the same database.  Nothing that is persisted changes.
Restart ==
    /\ InFlight = {}
    /\ Len(ops) < MaxCalls
    /\ ops' = Append(ops, [BlankOp EXCEPT !.op = "restart", !.seen = Done])
    /\ UNCHANGED <<now, minted, validated, permissions, next_id, audit_log, prompts,
                   consent_handler, dialogs, registry, service>>

TickHandler ==
    /\ \E t \in HandlerReadings : t > now /\ now' = t
    /\ UNCHANGED <<minted, validated, permissions, next_id, audit_log, ops, prompts,
                   consent_handler, dialogs, registry, service>>

NextHandler ==
    \/ \E h \in HandlerRequests : HandlerRequest(h)
    \/ Restart
    \/ \E i \in 1..Len(ops) :
          \/ ExecSelect(i)
          \/ ExecDelete(i)
          \/ ExecInsert(i)
          \/ ExecLog(i)
          \/ \E result \in ConsentResults : DialogAnswer(i, result)
    \/ TickHandler

SpecHandler == InitCommon /\ [][NextHandler]_vars

(***************************************************************************)
(* The middleware with Authorization headers whose scheme word is written  *)
(* in any case: requests of one client to one path.                        *)
(***************************************************************************)
\* The first seven characters of the Authorization header.
SchemeWords == {"Bearer ", "bearer ", "BEARER "}

\* Authorization: <word><token>
Authorization(headers, word, token) ==
    [headers EXCEPT !.authorization = Some([lead |-> word, credentials |-> token])]

SchemeRequests ==
    {HeadersA} \cup {Authorization(HeadersA, word, m.token) :
                        word \in SchemeWords, m \in minted}

NextScheme ==
    \/ \E h \in SchemeRequests : HandlerRequest(h)
    \/ \E i \in 1..Len(ops) :
          \/ ExecSelect(i)
          \/ ExecDelete(i)
          \/ ExecInsert(i)
          \/ ExecLog(i)
          \/ \E result \in show_consent_dialog : DialogAnswer(i, result)
    \/ TickHandler

SpecScheme == InitCommon /\ [][NextScheme]_vars

(***************************************************************************)
(* The middleware with revocations: requests of one client to one path,    *)
(* and calls of revoke_permission and revoke_all_for_client for it.        *)
(***************************************************************************)
NextRevoke ==
    \/ \E h \in HandlerRequests : HandlerRequest(h)
    \/ StartRevoke("client-a", HandlerPath)
    \/ StartRevokeAll("client-a")
    \/ \E i \in 1..Len(ops) :
          \/ ExecSelect(i)
          \/ ExecDelete(i)
          \/ ExecDeleteAll(i)
          \/ ExecInsert(i)
          \/ ExecLog(i)
          \/ \E result \in show_consent_dialog : DialogAnswer(i, result)
    \/ TickHandler

SpecRevoke == InitCommon /\ [][NextRevoke]_vars

(***************************************************************************)
(* The prompter (consent/prompt.py).  A dialog is a record: the host it is  *)
(* shown on, the backend that put it on screen, its timeout_seconds, the    *)
(* seconds it has been on screen, and once it is closed what closed it, what *)
(* the dialog program reported and the ConsentResult returned.  Return codes *)
(* and the value of askyesnocancel are written as strings.                   *)
(***************************************************************************)
\* platform.system() and the dialog programs found on the host.
Hosts ==
    {[system |-> "Darwin", installed |-> {"osascript"}],
     [system |-> "Darwin", installed |-> {}],
     [system |-> "Windows", installed |-> {"powershell"}],
     [system |-> "Windows", installed |-> {}],
     [system |-> "Linux", installed |-> {"zenity", "kdialog"}],
     [system |-> "Linux", installed |-> {"kdialog"}],
     [system |-> "Linux", installed |-> {}]}

\* settings.consent_timeout_seconds, in seconds.
PromptTimeouts == {1, 2}

\* _show_linux_dialog: zenity, then kdialog when zenity is not found, then
\* tkinter.
show_linux_backend(installed) ==
    IF "zenity" \in installed THEN "zenity"
    ELSE IF "kdialog" \in installed THEN "kdialog"
    ELSE "tkinter"

\* show_consent_dialog: the backend by platform.system(); any exception of
\* the native backend (its program is not found) falls back to tkinter.
Backend(host) ==
    CASE host.system = "Darwin" ->
            IF "osascript" \in host.installed THEN "osascript" ELSE "tkinter"
      [] host.system = "Windows" ->
            IF "powershell" \in host.installed THEN "powershell" ELSE "tkinter"
      [] OTHER -> show_linux_backend(host.installed)

\* The buttons each backend's dialog shows.
Buttons(backend) ==
    CASE backend = "osascript" -> {"Deny", "Allow Once", "Allow Always"}
      [] backend = "powershell" -> {"Yes", "No", "Cancel"}
      [] backend = "zenity" -> {"Allow", "Deny"}
      [] backend = "kdialog" -> {"Yes", "No"}
      [] backend = "tkinter" -> {"Yes", "No", "Cancel"}

\* The backends whose dialog is given prompt.timeout_seconds: "giving up
\* after" of osascript and --timeout of zenity.
HasTimeout(backend) == backend \in {"osascript", "zenity"}

\* What the dialog program reports: stdout of osascript and powershell, the
\* return code of zenity and kdialog, the value of askyesnocancel.
Output(backend, event, button) ==
    CASE backend = "osascript" ->
            IF event = "click" THEN button
            ELSE IF event = "timeout" THEN "timeout" ELSE ""
      [] backend = "powershell" ->
            IF event = "click" THEN button ELSE "Cancel"
      [] backend = "zenity" ->
            IF event = "click" /\ button = "Allow" THEN "0"
            ELSE IF event = "timeout" THEN "5" ELSE "1"
      [] backend = "kdialog" ->
            IF event = "click" /\ button = "Yes" THEN "0" ELSE "1"
      [] backend = "tkinter" ->
            IF event = "click" /\ button = "Yes" THEN "True"
            ELSE IF event = "click" /\ button = "No" THEN "False"
            ELSE "None"

show_macos_dialog(result) ==
    IF result = "Allow Always" THEN "allow_permanent"
    ELSE IF result = "Allow Once" THEN "allow_once"
    ELSE "denied"

show_windows_dialog(result) ==
    IF result = "Yes" THEN "allow_permanent"
    ELSE IF result = "No" THEN "allow_once"
    ELSE "denied"

\* zenity and kdialog: ALLOW_PERMANENT if proc.returncode == 0 else DENIED
show_linux_dialog(returncode) ==
    IF returncode = "0" THEN "allow_permanent" ELSE "denied"

\* _show: True -> "yes", False -> "once", None -> "no"; then the result.
show_tkinter_dialog(result) ==
    LET shown == IF result = "True" THEN "yes"
                 ELSE IF result = "False" THEN "once" ELSE "no" IN
    IF shown = "yes" THEN "allow_permanent"
    ELSE IF shown = "once" THEN "allow_once"
    ELSE "denied"

\* The ConsentResult the backend returns for what its program reported.
ResultOf(backend, output) ==
    CASE backend = "osascript" -> show_macos_dialog(output)
      [] backend = "powershell" -> show_windows_dialog(output)
      [] backend \in {"zenity", "kdialog"} -> show_linux_dialog(output)
      [] backend = "tkinter" -> show_tkinter_dialog(output)

OpenDialogs == {i \in 1..Len(dialogs) : dialogs[i].open}

\* The dialog d closed by `event`.
Closed(d, event, button) ==
    LET output == Output(d.backend, event, button) IN
    [d EXCEPT !.open = FALSE, !.event = event, !.button = button,
              !.output = output, !.result = ResultOf(d.backend, output)]

\* show_consent_dialog(prompt) puts a dialog on screen.
Show(host, timeout_seconds) ==
    /\ Len(dialogs) < MaxDialogs
    /\ dialogs' = Append(dialogs,
          [host |-> host, backend |-> Backend(host),
           timeout_seconds |-> timeout_seconds, elapsed |-> 0, open |-> TRUE,
           event |-> "", button |-> "", output |-> "", result |-> ""])
    /\ UNCHANGED <<now, minted, validated, permissions, next_id, audit_log,
                   ops, prompts, consent_handler,
                   registry, service>>

\* The user presses a button of dialog i.
Click(i, button) ==
    /\ dialogs[i].open
    /\ button \in Buttons(dialogs[i].backend)
    /\ dialogs' = [dialogs EXCEPT ![i] = Closed(@, "click", button)]
    /\ UNCHANGED <<now, minted, validated, permissions, next_id, audit_log,
                   ops, prompts, consent_handler,
                   registry, service>>

\* The user closes dialog i without pressing a button.
Dismiss(i) ==
    /\ dialogs[i].open
    /\ dialogs' = [dialogs EXCEPT ![i] = Closed(@, "dismiss", "")]
    /\ UNCHANGED <<now, minted, validated, permissions, next_id, audit_log,
                   ops, prompts, consent_handler,
                   registry, service>>

\* The dialog program gives up after timeout_seconds, where it was told to.
GiveUp(i) ==
    /\ dialogs[i].open
    /\ HasTimeout(dialogs[i].backend)
    /\ dialogs[i].elapsed >= dialogs[i].timeout_seconds
    /\ dialogs' = [dialogs EXCEPT ![i] = Closed(@, "timeout", "")]
    /\ UNCHANGED <<now, minted, validated, permissions, next_id, audit_log,
                   ops, prompts, consent_handler,
                   registry, service>>

\* A second passes with nobody at the screen; a dialog whose timer has run
\* out gives up before the next second.
TickPrompt ==
    /\ OpenDialogs # {}
    /\ \A i \in OpenDialogs :
          /\ dialogs[i].elapsed < MaxElapsed
          /\ HasTimeout(dialogs[i].backend)
                => dialogs[i].elapsed < dialogs[i].timeout_seconds
    /\ dialogs' = [i \in 1..Len(dialogs) |->
                      IF dialogs[i].open
                      THEN [dialogs[i] EXCEPT !.elapsed = @ + 1]
                      ELSE dialogs[i]]
    /\ UNCHANGED <<now, minted, validated, permissions, next_id, audit_log,
                   ops, prompts, consent_handler,
                   registry, service>>

NextPrompt ==
    \/ \E host \in Hosts, t \in PromptTimeouts : Show(host, t)
    \/ \E i \in 1..Len(dialogs) :
          \/ \E button \in Buttons(dialogs[i].backend) : Click(i, button)
          \/ Dismiss(i)
          \/ GiveUp(i)
    \/ TickPrompt

SpecPrompt == InitCommon /\ [][NextPrompt]_vars

(***************************************************************************)
(* Failures during a request.  An awaited store call or the prompter may    *)
(* raise; neither dispatch nor ConsentHandler.__call__ has a try, so the    *)
(* exception leaves dispatch.  show_consent_dialog catches any exception of *)
(* the native dialog and shows the tkinter dialog instead.                  *)
(***************************************************************************)
FailRequests == {HeadersA, HeadersB}

FailRequest(headers) == Arrive(MaxRequests, "middleware", HandlerPath, headers)

\* The store statement request i awaits raises (the database is locked, the
\* disk is full, the connection is closed).
StoreFails(i) ==
    /\ ops[i].op = "dispatch"
    /\ ops[i].pc \in {"select", "delete", "insert", "log"}
    /\ ops' = [ops EXCEPT ![i] = Raise([@ EXCEPT !.failed = ops[i].pc])]
    /\ UNCHANGED <<now, minted, validated, permissions, next_id, audit_log, prompts,
                   consent_handler, dialogs, registry, service>>

\* The native dialog of request i raises and show_consent_dialog shows the
\* tkinter dialog.
NativeDialogFails(i) ==
    /\ ops[i].pc = "dialog" /\ ~ops[i].fallback
    /\ ops' = [ops EXCEPT ![i].fallback = TRUE]
    /\ UNCHANGED <<now, minted, validated, permissions, next_id, audit_log, prompts,
                   consent_handler, dialogs, registry, service>>

\* The native dialog of request i returns `result`.
NativeAnswer(i, result) == ~ops[i].fallback /\ DialogAnswer(i, result)

\* The tkinter fallback of request i is closed by `event` and returns.
FallbackAnswer(i, event, button) ==
    /\ ops[i].pc = "dialog" /\ ops[i].fallback
    /\ LET result == ResultOf("tkinter", Output("tkinter", event, button))
           o == [ops[i] EXCEPT !.consent = result, !.button = button]
           o2 == IF result = "denied" THEN Deny(o) ELSE ConsentGrant(o, result, now) IN
       /\ ops' = [ops EXCEPT ![i] = o2]
       /\ minted' = IF result = "denied" THEN minted
                    ELSE minted \cup {MintRecord(o2, now)}
    /\ UNCHANGED <<now, validated, permissions, next_id, audit_log, prompts,
                   consent_handler, dialogs, registry, service>>

\* The tkinter fallback raises too (no display): the exception leaves
\* show_consent_dialog, the handler and dispatch.
FallbackFails(i) ==
    /\ ops[i].pc = "dialog" /\ ops[i].fallback
    /\ ops' = [ops EXCEPT ![i] = Raise([@ EXCEPT !.failed = "dialog"])]
    /\ UNCHANGED <<now, minted, validated, permissions, next_id, audit_log, prompts,
                   consent_handler, dialogs, registry, service>>

NextFail ==
    \/ \E h \in FailRequests : FailRequest(h)
    \/ \E i \in 1..Len(ops) :
          \/ ExecSelect(i)
          \/ ExecDelete(i)
          \/ ExecInsert(i)
          \/ ExecLog(i)
          \/ StoreFails(i)
          \/ NativeDialogFails(i)
          \/ FallbackFails(i)
          \/ \E result \in show_consent_dialog : NativeAnswer(i, result)
          \/ \E button \in Buttons("tkinter") : FallbackAnswer(i, "click", button)
          \/ FallbackAnswer(i, "dismiss", "")
    \/ TickHandler

SpecFail == InitCommon /\ [][NextFail]_vars

(***************************************************************************)
(* The plugin registry (plugins/registry.py).  registry.plugins is          *)
(* self._plugins and registry.endpoints is self._endpoints, both functions  *)
(* on the keys they hold; public_routes and protected_routes are the route  *)
(* lists of the two APIRouter objects; hooks lists the on_load and          *)
(* on_unload calls made, and calls the register and unregister calls.       *)
(***************************************************************************)
\* DemoPlugin (plugins/demo.py).
demo_plugin ==
    [name |-> "demo", version |-> "1.0.0",
     description |-> "Built-in demo plugin for testing and documentation",
     endpoints |->
        <<[path |-> "/ping", endpoint_type |-> "public", method |-> "GET",
           description |-> "Simple ping endpoint"],
          [path |-> "/echo", endpoint_type |-> "public", method |-> "POST",
           description |-> "Echo back the request body"],
          [path |-> "/time", endpoint_type |-> "public", method |-> "GET",
           description |-> "Get current server time"],
          [path |-> "/system-info", endpoint_type |-> "protected", method |-> "GET",
           description |-> "Get system information (protected)"],
          [path |-> "/execute", endpoint_type |-> "protected", method |-> "POST",
           description |-> "Execute a simple command (protected)"]>>]

\* Two more Plugin objects: one that carries the name of the demo plugin,
\* and one of another name.
demo_plugin_2 ==
    [name |-> "demo", version |-> "2.0.0", description |-> "",
     endpoints |->
        <<[path |-> "/ping", endpoint_type |-> "protected", method |-> "GET",
           description |-> ""]>>]

notes_plugin ==
    [name |-> "notes", version |-> "0.1.0", description |-> "",
     endpoints |->
        <<[path |-> "/list", endpoint_type |-> "protected", method |-> "GET",
           description |-> ""],
          [path |-> "/about", endpoint_type |-> "public", method |-> "GET",
           description |-> ""]>>]

Plugins == {demo_plugin, demo_plugin_2, notes_plugin}
PluginNames == {p.name : p \in Plugins} \cup {"absent"}

\* full_path = f"/{plugin.name}{endpoint.path}"
FullPath(name, endpoint) == "/" \o name \o endpoint.path

\* The prefix of self._public_router and of self._protected_router.
RouterPrefix(endpoint_type) == IF endpoint_type = "public" THEN "/public" ELSE ""

\* router.add_api_route(full_path, endpoint.handler, ...): the route added.
ApiRoute(plugin, endpoint) ==
    [path |-> RouterPrefix(endpoint.endpoint_type) \o FullPath(plugin.name, endpoint),
     handler |-> <<plugin.name, plugin.version, endpoint.path>>,
     methods |-> {endpoint.method},
     description |-> endpoint.description,
     tags |-> plugin.name]

\* The loop of register over the endpoints from the k-th on.
RECURSIVE AddEndpoints(_, _, _)
AddEndpoints(reg, plugin, k) ==
    IF k > Len(plugin.endpoints) THEN reg
    ELSE LET endpoint == plugin.endpoints[k]
             full_path == FullPath(plugin.name, endpoint)
             route == ApiRoute(plugin, endpoint)
             reg2 == [reg EXCEPT
                        !.endpoints = (full_path :> endpoint) @@ @,
                        !.public_routes =
                            IF endpoint.endpoint_type = "public"
                            THEN Append(@, route) ELSE @,
                        !.protected_routes =
                            IF endpoint.endpoint_type = "public"
                            THEN @ ELSE Append(@, route)] IN
         AddEndpoints(reg2, plugin, k + 1)

\* A faulty register: a name that is registered already is registered again.
registerAgain(reg, plugin) ==
    AddEndpoints([reg EXCEPT !.hooks = Append(@, <<"on_load", plugin.name>>),
                             !.plugins = (plugin.name :> plugin) @@ @],
                 plugin, 1)

\* PluginRegistry.register
register(reg, plugin) ==
    IF plugin.name \in DOMAIN reg.plugins
    THEN reg
    ELSE AddEndpoints([reg EXCEPT !.hooks = Append(@, <<"on_load", plugin.name>>),
                                  !.plugins = (plugin.name :> plugin) @@ @],
                      plugin, 1)

\* self._endpoints.pop(full_path, None), for every endpoint of the plugin
RemoveEndpoints(endpoints, plugin) ==
    LET gone == {FullPath(plugin.name, plugin.endpoints[k]) :
                    k \in 1..Len(plugin.endpoints)} IN
    [path \in DOMAIN endpoints \ gone |-> endpoints[path]]

\* PluginRegistry.unregister
unregister(reg, plugin_name) ==
    IF plugin_name \notin DOMAIN reg.plugins
    THEN reg
    ELSE LET plugin == reg.plugins[plugin_name] IN
         [reg EXCEPT !.hooks = Append(@, <<"on_unload", plugin_name>>),
                     !.endpoints = RemoveEndpoints(@, plugin),
                     !.plugins = [n \in DOMAIN @ \ {plugin_name} |-> @[n]]]

\* PluginRegistry.get_capabilities
get_capabilities(reg) ==
    [name \in DOMAIN reg.plugins |->
        LET plugin == reg.plugins[name] IN
        [version |-> plugin.version,
         description |-> plugin.description,
         endpoints |->
            [k \in 1..Len(plugin.endpoints) |->
                [path |-> FullPath(name, plugin.endpoints[k]),
                 method |-> plugin.endpoints[k].method,
                 type |-> plugin.endpoints[k].endpoint_type,
                 description |-> plugin.endpoints[k].description]]]]

\* The call `call` was made and left the registry as reg.
Called(reg, call) == [reg EXCEPT !.calls = Append(@, call)]

\* await registry.register(plugin)
Register(plugin) ==
    /\ Len(registry.calls) < MaxRegistryCalls
    /\ registry' = Called(register(registry, plugin),
                          [op |-> "register", name |-> plugin.name,
                           plugin |-> Some(plugin),
                           known |-> plugin.name \in DOMAIN registry.plugins])
    /\ UNCHANGED <<now, minted, validated, permissions, next_id, audit_log, ops,
                   prompts, consent_handler, dialogs, service>>

\* await registry.unregister(plugin_name)
Unregister(plugin_name) ==
    /\ Len(registry.calls) < MaxRegistryCalls
    /\ registry' = Called(unregister(registry, plugin_name),
                          [op |-> "unregister", name |-> plugin_name,
                           plugin |-> None,
                           known |-> plugin_name \in DOMAIN registry.plugins])
    /\ UNCHANGED <<now, minted, validated, permissions, next_id, audit_log, ops,
                   prompts, consent_handler, dialogs, service>>

NextRegistry ==
    \/ \E plugin \in Plugins : Register(plugin)
    \/ \E plugin_name \in PluginNames : Unregister(plugin_name)

SpecRegistry == InitCommon /\ [][NextRegistry]_vars

(***************************************************************************)
(* The middleware in front of the endpoints of the registered plugins.      *)
(***************************************************************************)
\* lifespan: _plugin_registry = PluginRegistry(); register(demo_plugin)
Lifespan ==
    /\ registry.calls = <<>>
    /\ Register(demo_plugin)

PluginRequestHeaders == {NoHeaders, HeadersA}

\* A request to the full path of a registered endpoint.
PluginRequest(path, headers) ==
    /\ path \in DOMAIN registry.endpoints
    /\ Arrive(MaxRequests, "middleware", path, headers)

NextPlugin ==
    \/ Lifespan
    \/ \E path \in DOMAIN registry.endpoints, h \in PluginRequestHeaders :
          PluginRequest(path, h)
    \/ \E i \in 1..Len(ops) :
          \/ ExecSelect(i)
          \/ ExecDelete(i)
          \/ ExecInsert(i)
          \/ ExecLog(i)
          \/ \E result \in show_consent_dialog : DialogAnswer(i, result)
    \/ TickHandler

SpecPlugin == InitCommon /\ [][NextPlugin]_vars

(***************************************************************************)
(* The middleware in front of the endpoints of a plugin other than the     *)
(* built-in one, registered when the service starts.                       *)
(***************************************************************************)
\* A Plugin object whose name is "public".
public_plugin ==
    [name |-> "public", version |-> "0.1.0", description |-> "",
     endpoints |->
        <<[path |-> "/secret", endpoint_type |-> "protected", method |-> "GET",
           description |-> ""],
          [path |-> "/info", endpoint_type |-> "public", method |-> "GET",
           description |-> ""]>>]

LoadedPlugins == {notes_plugin, public_plugin}

\* await _plugin_registry.register(plugin), before any request is served.
LoadPlugin(plugin) ==
    /\ registry.calls = <<>>
    /\ Register(plugin)

NextLoaded ==
    \/ \E plugin \in LoadedPlugins : LoadPlugin(plugin)
    \/ \E path \in DOMAIN registry.endpoints, h \in PluginRequestHeaders :
          PluginRequest(path, h)
    \/ \E i \in 1..Len(ops) :
          \/ ExecSelect(i)
          \/ ExecDelete(i)
          \/ ExecInsert(i)
          \/ ExecLog(i)
          \/ \E result \in show_consent_dialog : DialogAnswer(i, result)
    \/ TickHandler

SpecLoaded == InitCommon /\ [][NextLoaded]_vars

(***************************************************************************)
(* The persisted secret (server.py).  service.secret_file is the content of    *)
(* <data_dir>/.secret ({} when the file is absent), service.token_manager the  *)
(* key of the running service's TokenManager ({} when the service is        *)
(* stopped), service.starts the calls of _load_or_create_secret; minted_in and *)
(* validated_in number the start in which the token was minted and the last *)
(* validation was made.                                                     *)
(***************************************************************************)
\* File mode bits: read and write for the owner, the group and the others.
ModeBits == {"owner_r", "owner_w", "group_r", "group_w", "other_r", "other_w"}

\* secret_path.chmod(0o600)
Mode0600 == {"owner_r", "owner_w"}

\* The umask of the process: 0o022, 0o002 or 0o077.
Umasks == {{"group_w", "other_w"}, {"other_w"},
           {"group_r", "group_w", "other_r", "other_w"}}

\* The mode of a file that write_bytes creates: open(path, "wb") asks for
\* 0o666 and the umask takes its bits away.
CreatedMode(umask) == ModeBits \ umask

\* A faulty _load_or_create_secret: a new key at every start.
load_or_create_fresh(file, fresh) ==
    [secret |-> fresh, file |-> Some(fresh), wrote |-> TRUE]

\* _load_or_create_secret, where `fresh` is what TokenManager.generate_secret
\* would return.
load_or_create_secret(file, fresh) ==
    IF file # None
    THEN [secret |-> TheValue(file), file |-> file, wrote |-> FALSE]
    ELSE [secret |-> fresh, file |-> Some(fresh), wrote |-> TRUE]

\* The data directory already holds the .secret of an earlier installation.
EarlierInstall(k) ==
    /\ service.starts = <<>> /\ service.secret_file = None
    /\ service' = [service EXCEPT !.secret_file = Some(k), !.secret_mode = Mode0600]
    /\ UNCHANGED <<now, minted, validated, permissions, next_id, audit_log, ops,
                   prompts, consent_handler, dialogs, registry>>

\* lifespan up to its yield: the secret is loaded or created and the
\* TokenManager is built on it.
Start(fresh) ==
    /\ service.token_manager = None
    /\ Len(service.starts) < MaxStarts
    /\ LET r == load_or_create_secret(service.secret_file, fresh) IN
       service' = [service EXCEPT
                  !.secret_file = r.file,
                  !.secret_mode = IF r.wrote THEN Mode0600 ELSE @,
                  !.token_manager = Some(r.secret),
                  !.starts = Append(@, [before |-> service.secret_file,
                                        returned |-> r.secret,
                                        after |-> r.file, wrote |-> r.wrote])]
    /\ UNCHANGED <<now, minted, validated, permissions, next_id, audit_log, ops,
                   prompts, consent_handler, dialogs, registry>>

\* The service is shut down.
Stop ==
    /\ service.token_manager # None
    /\ service' = [service EXCEPT !.token_manager = None]
    /\ UNCHANGED <<now, minted, validated, permissions, next_id, audit_log, ops,
                   prompts, consent_handler, dialogs, registry>>

\* The running service mints a token.
MintRunning(c, e, p, h) ==
    /\ service.token_manager # None
    /\ Cardinality(minted) < MaxMinted
    /\ LET k == TheValue(service.token_manager) IN
       minted' = minted \cup
         {[token |-> generate_token(k, c, e, p, h, now), key |-> k,
           client_id |-> c, endpoint |-> e, permissions |-> p,
           expires_in_hours |-> h, issued_at |-> now]}
    /\ service' = [service EXCEPT !.minted_in = Len(service.starts)]
    /\ UNCHANGED <<now, validated, permissions, next_id, audit_log, ops,
                   prompts, consent_handler, dialogs, registry>>

\* The running service validates a token.
ValidateRunning(tok) ==
    /\ service.token_manager # None
    /\ LET k == TheValue(service.token_manager) IN
       validated' = Some([key |-> k, token |-> tok, at |-> now,
                          result |-> validate_token(k, tok, now)])
    /\ service' = [service EXCEPT !.validated_in = Len(service.starts)]
    /\ UNCHANGED <<now, minted, permissions, next_id, audit_log, ops,
                   prompts, consent_handler, dialogs, registry>>

NextSecret ==
    \/ \E k \in Keys : EarlierInstall(k)
    \/ \E fresh \in Keys : Start(fresh)
    \/ Stop
    \/ \E x \in TokenInputs, h \in ExpiryHours : MintRunning(x[1], x[2], x[3], h)
    \/ \E tok \in {m.token : m \in minted} : ValidateRunning(tok)
    \/ TickToken

SpecSecret == InitCommon /\ [][NextSecret]_vars

(***************************************************************************)
(* _load_or_create_secret statement by statement: the file system between  *)
(* write_bytes and chmod is visible to every other process of the host.    *)
(***************************************************************************)
\* secret_path.exists() is true: read_bytes, and the TokenManager is built.
StartRead ==
    /\ service.token_manager = None /\ service.creating = None
    /\ Len(service.starts) < MaxStarts
    /\ service.secret_file # None
    /\ service' = [service EXCEPT
                  !.token_manager = service.secret_file,
                  !.starts = Append(@, [before |-> service.secret_file,
                                        returned |-> TheValue(service.secret_file),
                                        after |-> service.secret_file,
                                        wrote |-> FALSE])]
    /\ UNCHANGED <<now, minted, validated, permissions, next_id, audit_log, ops,
                   prompts, consent_handler, dialogs, registry>>

\* secret_path.exists() is false: generate_secret, ensure_dirs and
\* write_bytes, under the umask of the process.
StartWrite(fresh, umask) ==
    /\ service.token_manager = None /\ service.creating = None
    /\ Len(service.starts) < MaxStarts
    /\ service.secret_file = None
    /\ service' = [service EXCEPT
                  !.secret_file = Some(fresh),
                  !.secret_mode = CreatedMode(umask),
                  !.creating = Some(fresh)]
    /\ UNCHANGED <<now, minted, validated, permissions, next_id, audit_log, ops,
                   prompts, consent_handler, dialogs, registry>>

\* secret_path.chmod(0o600) and the return; the TokenManager is built.
StartChmod ==
    /\ service.creating # None
    /\ service' = [service EXCEPT
                  !.secret_mode = Mode0600,
                  !.creating = None,
                  !.token_manager = service.creating,
                  !.starts = Append(@, [before |-> None,
                                        returned |-> TheValue(service.creating),
                                        after |-> service.secret_file,
                                        wrote |-> TRUE])]
    /\ UNCHANGED <<now, minted, validated, permissions, next_id, audit_log, ops,
                   prompts, consent_handler, dialogs, registry>>

NextBoot ==
    \/ \E k \in Keys : EarlierInstall(k)
    \/ StartRead
    \/ \E fresh \in Keys, umask \in Umasks : StartWrite(fresh, umask)
    \/ StartChmod
    \/ Stop
    \/ \E x \in TokenInputs, h \in ExpiryHours : MintRunning(x[1], x[2], x[3], h)
    \/ \E tok \in {m.token : m \in minted} : ValidateRunning(tok)
    \/ TickToken

SpecBoot == InitCommon /\ [][NextBoot]_vars

(***************************************************************************)
(* Properties of the token manager (SpecToken).                            *)
(***************************************************************************)
\* The token a validation was given was minted by m under the key used.
MintedUnder(v, m) == m.token = v.token /\ m.key = v.key

\* The validation happened before the expiry time of the token of m.
BeforeExpiry(v, m) ==
    m.expires_in_hours = None
    \/ v.at < m.issued_at + TheValue(m.expires_in_hours) * UnitsPerHour

\* C9: a token minted for (client_id, endpoint, permissions) with a positive
\* number of hours or with no expiry, validated under the same key before
\* its expiry time, gives claims with the client_id, endpoint and
\* permissions of the mint; expires_at is issued_at plus the hours, and null
\* when no expiry was given (then it validates at every later time).
C9_RoundTrip ==
    \A v \in validated, m \in minted :
        (MintedUnder(v, m) /\ m.expires_in_hours # Some(0) /\ BeforeExpiry(v, m))
        => /\ ~v.result.raised
           /\ v.result.claims # None
           /\ LET claims == TheValue(v.result.claims) IN
              /\ claims.client_id = m.client_id
              /\ claims.endpoint = m.endpoint
              /\ claims.permissions = m.permissions
              /\ claims.issued_at = m.issued_at
              /\ claims.expires_at =
                    IF m.expires_in_hours = None THEN None
                    ELSE Some(m.issued_at + TheValue(m.expires_in_hours) * UnitsPerHour)

\* A token minted with one hour of life and a non-empty permission list is
\* validated, under its key, later than it was minted and before it expires.
C9_Witness ==
    \E v \in validated, m \in minted :
        /\ MintedUnder(v, m) /\ BeforeExpiry(v, m)
        /\ m.expires_in_hours = Some(1) /\ Len(m.permissions) = 2
        /\ v.at > m.issued_at
        /\ v.result.claims # None

\* C10: for a token minted under a different key, and for any string that
\* is not a token minted under the current key, validate_token returns
\* null: it does not raise and returns no claims.
C10_RejectsForeign ==
    \A v \in validated :
        (~\E m \in minted : MintedUnder(v, m))
        => v.result = [raised |-> FALSE, claims |-> None]

\* C11: a token with a non-null expires_at validates as null whenever the
\* clock has reached expires_at, the instant now = expires_at included; so
\* a token minted with expires_in_hours = 0 is never accepted.
C11_ExpiredAtDeadline ==
    \A v \in validated, m \in minted :
        ( /\ MintedUnder(v, m) /\ m.expires_in_hours # None
          /\ v.at >= m.issued_at + TheValue(m.expires_in_hours) * UnitsPerHour )
        => v.result.claims = None

(***************************************************************************)
(* Properties of the permission store (SpecStore).                         *)
(***************************************************************************)
Calls == 1..Len(ops)

\* Coroutine j has changed the permissions table.
HasWritten(j) == ops[j].entry # None

\* Coroutine j writes rows of (c, e).
Affects(j, c, e) ==
    /\ ops[j].client_id = c
    /\ ops[j].endpoint = e \/ ops[j].op = "revoke_all"

\* Call g is a grant for the pair of call k.
GrantFor(g, k) ==
    /\ ops[g].op = "grant"
    /\ ops[g].client_id = ops[k].client_id
    /\ ops[g].endpoint = ops[k].endpoint

\* Call i had returned when call j began.
Precedes(i, j) == i \in ops[j].seen

\* Every write to the pair of g made so far by a call outside `others` was
\* made by a call that had returned when g began.
OnlyEarlierWrites(g, others) ==
    \A j \in Calls \ others :
        (Affects(j, ops[g].client_id, ops[g].endpoint) /\ HasWritten(j))
        => Precedes(j, g)

\* The write of g is the last one made to its pair.
LastWrite(g) == OnlyEarlierWrites(g, {g})

\* The clock read by check k was past the expires_at stored by grant g.
PastExpiry(g, k) ==
    LET expires_at == TheValue(ops[g].row).expires_at IN
    /\ expires_at # None
    /\ TheValue(ops[k].checked_at) > fromisoformat(TheValue(expires_at))

\* C4: if grant(c, e, ...) completes before check(c, e) begins, and no
\* revoke, revoke_all, eviction by another check or other grant wrote to
\* (c, e) since the grant began, and the clock read by the check is not past the grant's
\* expires_at, then the check returns the grant: its client_id, endpoint,
\* kind and token are those given to the grant call.
C4_CheckAfterGrant ==
    \A g \in Calls, k \in Calls :
        ( /\ GrantFor(g, k) /\ ops[k].op = "check"
          /\ Precedes(g, k) /\ ops[k].pc = "done"
          /\ OnlyEarlierWrites(g, {g, k})
          /\ ~PastExpiry(g, k) )
        => /\ ops[k].result # None
           /\ LET stored == TheValue(ops[k].result) IN
              /\ stored.client_id = ops[g].client_id
              /\ stored.endpoint = ops[g].endpoint
              /\ stored.grant_type = TheValue(ops[g].args).grant_type
              /\ stored.token = TheValue(ops[g].args).token

\* A TEMPORARY grant is checked at the very instant of its expires_at, after
\* it returned, and the check returns it.
C4_Witness ==
    \E g \in Calls, k \in Calls :
        /\ GrantFor(g, k) /\ ops[k].op = "check"
        /\ Precedes(g, k) /\ ops[k].pc = "done"
        /\ OnlyEarlierWrites(g, {g, k})
        /\ TheValue(ops[g].args).grant_type = "temporary"
        /\ ops[k].checked_at = Some(TheValue(ops[g].at) + TemporaryLifetime)
        /\ ops[k].result # None

\* No grant for the pair of check k had begun when k returned.
NeverGranted(k) == \A g \in Calls : GrantFor(g, k) => Precedes(k, g)

\* revoke v of the pair of check k returned before k began, and every grant
\* for the pair either returned before v began or began after k returned.
RevokedBefore(v, k) ==
    /\ ops[v].op = "revoke"
    /\ ops[v].client_id = ops[k].client_id /\ ops[v].endpoint = ops[k].endpoint
    /\ Precedes(v, k)
    /\ \A g \in Calls : GrantFor(g, k) => (Precedes(g, v) \/ Precedes(k, g))

\* C6: check(c, e) returns null when no grant for (c, e) is in force: for a
\* pair that was never granted, and after revoke(c, e) has completed, until
\* a later grant(c, e, ...), whatever kind the revoked grant had.
C6_NullWithoutGrant ==
    \A k \in Calls :
        ( /\ ops[k].op = "check" /\ ops[k].pc = "done"
          /\ NeverGranted(k) \/ \E v \in Calls : RevokedBefore(v, k) )
        => ops[k].result = None

\* A grant that never expires was revoked, and a check made after the
\* revoke returned null.
C6_Witness ==
    \E g \in Calls, v \in Calls, k \in Calls :
        /\ ops[k].op = "check" /\ ops[k].pc = "done"
        /\ GrantFor(g, k) /\ Precedes(g, v) /\ RevokedBefore(v, k)
        /\ TheValue(ops[g].row).expires_at = None
        /\ ops[k].result = None

\* Every grant for client c so far had returned when revoke_all v began, or
\* has not written its row yet.
NoGrantSince(v) ==
    \A g \in Calls :
        (ops[g].op = "grant" /\ ops[g].client_id = ops[v].client_id)
        => (Precedes(g, v) \/ ~HasWritten(g))

\* C7: after revoke_all(c) completes, and until a later grant for c,
\* check(c, e) returns null for every endpoint e: the table holds no row of
\* c, however many grants c held and of whatever kinds, and a check made
\* after the revoke_all returns null.
C7_RevokeAll ==
    \A v \in Calls :
        (ops[v].op = "revoke_all" /\ ops[v].pc = "done")
        => /\ NoGrantSince(v)
              => \A r \in permissions : r.client_id # ops[v].client_id
           /\ \A k \in Calls :
                 ( /\ ops[k].op = "check" /\ ops[k].pc = "done"
                   /\ ops[k].client_id = ops[v].client_id
                   /\ Precedes(v, k)
                   /\ \A g \in Calls :
                         (ops[g].op = "grant" /\ ops[g].client_id = ops[v].client_id)
                         => (Precedes(g, v) \/ Precedes(k, g)) )
                 => ops[k].result = None

\* A client held a grant that had not expired, revoke_all was called for
\* the client, and a check of the granted pair made afterwards returned null.
C7_Witness ==
    \E g \in Calls, v \in Calls, k \in Calls :
        /\ ops[v].op = "revoke_all" /\ ops[v].client_id = ops[k].client_id
        /\ ops[k].op = "check" /\ ops[k].pc = "done"
        /\ GrantFor(g, k) /\ Precedes(g, v) /\ Precedes(v, k)
        /\ ~PastExpiry(g, k)
        /\ ops[k].result = None

\* The rows of table permissions for (c, e).
RowsOf(c, e) == {r \in permissions : r.client_id = c /\ r.endpoint = e}

\* Row r holds what grant call g asked to store.
HoldsGrant(r, g) ==
    /\ r.token = TheValue(ops[g].args).token
    /\ r.grant_type = TheValue(ops[g].args).grant_type
    /\ JsonLoadsList(r.permissions) = TheValue(ops[g].args).permissions
    /\ r.expires_at = TheValue(ops[g].row).expires_at

\* C8: the permissions table holds at most one row per (client_id,
\* endpoint); after two successive grant(c, e, ...) calls, with no other
\* write to the pair since the second began, there is exactly one row for
\* (c, e), and its token, kind, permissions and expires_at are those of the
\* second call.
C8_Upsert ==
    /\ \A r \in permissions, q \in permissions :
          (r.client_id = q.client_id /\ r.endpoint = q.endpoint) => r = q
    /\ \A g1 \in Calls, g2 \in Calls :
          ( /\ ops[g1].op = "grant" /\ GrantFor(g2, g1)
            /\ Precedes(g1, g2) /\ ops[g2].pc = "done"
            /\ LastWrite(g2) )
          => /\ Cardinality(RowsOf(ops[g2].client_id, ops[g2].endpoint)) = 1
             /\ \A r \in RowsOf(ops[g2].client_id, ops[g2].endpoint) : HoldsGrant(r, g2)

\* Two successive grants of different kinds, with different permissions,
\* were made for one pair, and both have returned.
C8_Witness ==
    \E g1 \in Calls, g2 \in Calls :
        /\ ops[g1].op = "grant" /\ GrantFor(g2, g1)
        /\ Precedes(g1, g2) /\ ops[g2].pc = "done"
        /\ LastWrite(g2)
        /\ TheValue(ops[g1].args).grant_type = "permanent"
        /\ TheValue(ops[g2].args).grant_type = "temporary"
        /\ RowsOf(ops[g2].client_id, ops[g2].endpoint) # {}

(***************************************************************************)
(* Properties of the middleware and of the served application (Spec).      *)
(***************************************************************************)
PassOutcomes == {"TOKEN_PASS", "STORE_PASS", "CONSENT_PASS"}

\* The evidence a request was admitted on.
Admitted(o) ==
    /\ o.outcome \in PassOutcomes
    /\ o.outcome = "TOKEN_PASS"
          => /\ TheValue(o.headers).authorization # None
             /\ \E m \in minted :
                   /\ m.token = TheValue(TheValue(o.headers).authorization).credentials
                   /\ m.client_id = o.client_id
    /\ o.outcome = "STORE_PASS" => o.result # None
    /\ o.outcome = "CONSENT_PASS"
          => o.result = None /\ o.consent \in ConsentResults \ {"denied"}

\* The 401 response of the middleware for request o.
Unauthorized(o) ==
    /\ o.status = 401
    /\ o.body # None
    /\ TheValue(o.body).client_id = o.client_id
    /\ TheValue(o.body).endpoint = o.endpoint

\* C1: in AuthMiddleware.dispatch, a request to a non-public path reaches
\* the downstream handler only if its bearer token validated for the
\* derived client_id, or the store check returned a grant, or the consent
\* handler approved; in every other case the response is 401 with the
\* client_id and the path, and the handler is not invoked.
C1_Admission ==
    \A i \in Calls :
        (ops[i].op = "dispatch" /\ ops[i].pc = "done" /\ ~IsPublicPath(ops[i].endpoint))
        => IF ops[i].handler THEN Admitted(ops[i]) ELSE Unauthorized(ops[i])

\* C2: in the application run_server serves, a request to a non-public path
\* reaches its route handler only through the admission decision; without
\* a valid token, a stored grant or an approval it is answered with 401.
C2_ServedGuarded ==
    \A i \in Calls :
        (ops[i].app = "served" /\ ops[i].pc = "done" /\ ~IsPublicPath(ops[i].endpoint))
        => IF ops[i].handler THEN Admitted(ops[i]) ELSE Unauthorized(ops[i])

\* The dialogs shown for (c, e).
PromptsFor(c, e) ==
    {p \in 1..Len(prompts) : prompts[p].client_id = c /\ prompts[p].endpoint = e}

\* C3: when a consent handler is installed, two requests for the same
\* (client_id, endpoint) with no prior grant that are in flight at the same
\* time see the consent dialog shown exactly once and get the same outcome.
C3_OnePrompt ==
    \A i \in Calls, j \in Calls :
        ( /\ consent_handler
          /\ i < j /\ ~Precedes(i, j)
          /\ ops[i].op = "dispatch" /\ ops[j].op = "dispatch"
          /\ ops[i].client_id = ops[j].client_id /\ ops[i].endpoint = ops[j].endpoint
          /\ ops[i].checked_at # None /\ ops[i].selected = None
          /\ ops[j].checked_at # None /\ ops[j].selected = None
          /\ ops[i].pc = "done" /\ ops[j].pc = "done" )
        => /\ Cardinality(PromptsFor(ops[i].client_id, ops[i].endpoint)) = 1
           /\ ops[i].outcome = ops[j].outcome

\* check_permission has returned to coroutine i.
CheckReturned(i) ==
    ops[i].checked_at # None /\ ~(ops[i].fn = "check" /\ ops[i].pc # "done")

\* The row check_permission fetched for coroutine i had an expires_at that
\* the clock had passed.
FetchedExpired(i) ==
    /\ ops[i].selected # None
    /\ TheValue(ops[i].selected).expires_at # None
    /\ TheValue(ops[i].checked_at)
          > fromisoformat(TheValue(TheValue(ops[i].selected).expires_at))

\* The bearer token of request i, validated now, names another client than
\* the one the request was identified as.  A token that is valid now was
\* valid when the request arrived.
ForeignToken(i) ==
    /\ ops[i].op = "dispatch" /\ ~IsPublicPath(ops[i].endpoint)
    /\ TheValue(ops[i].headers).authorization # None
    /\ LET v == validate_token(ServerKey,
                   TheValue(TheValue(ops[i].headers).authorization).credentials, now) IN
       /\ ~v.raised /\ v.claims # None
       /\ TheValue(v.claims).client_id # ops[i].client_id

\* C12: a request whose bearer token validates but names another client_id
\* than the derived one is treated like a request with no token: it is
\* never TOKEN_PASS, it causes no error, and the decision goes on with the
\* store check and then, when no grant is stored, with one consent prompt.
C12_ForeignToken ==
    \A i \in Calls :
        ForeignToken(i)
        => /\ ops[i].outcome \notin {"TOKEN_PASS", "ERROR"}
           /\ ops[i].pc = "select" \/ ops[i].checked_at # None
           /\ (CheckReturned(i) /\ ops[i].result = None /\ consent_handler)
                 => /\ ops[i].prompted
                    /\ \E p \in PromptsFor(ops[i].client_id, ops[i].endpoint) : TRUE
           /\ (CheckReturned(i) /\ ops[i].result # None)
                 => ops[i].outcome = "STORE_PASS"

\* A request presented the valid token of another client, found no grant
\* stored for itself, and was sent to the consent dialog.
C12_Witness ==
    \E i \in Calls :
        /\ ForeignToken(i)
        /\ CheckReturned(i) /\ ops[i].selected = None
        /\ ops[i].prompted

\* The dialog of request i returns DENIED in this step.
DeniedNow(i) == ops[i].pc = "dialog" /\ ops'[i].consent = "denied"

\* C13: when the consent dialog returns DENIED, the handler reports
\* not-approved and the request gets 401 without reaching its handler; the
\* permissions table and the audit log stay exactly as they were: no row
\* is written and no audit entry is added, then or later, for the request.
C13_DeniedWritesNothing ==
    /\ [][\A i \in Calls :
             DeniedNow(i)
             => /\ permissions' = permissions
                /\ audit_log' = audit_log
                /\ next_id' = next_id
                /\ minted' = minted
                /\ ops'[i].pc = "done" /\ ops'[i].status = 401
                /\ ~ops'[i].handler]_vars
    /\ [](\A i \in Calls :
             ops[i].consent = "denied"
             => /\ ops[i].pc = "done" /\ ops[i].outcome = "DENY"
                /\ Unauthorized(ops[i])
                /\ ops[i].args = None /\ ops[i].row = None)

\* A request was prompted, the dialog returned DENIED, and the request was
\* answered 401.
C13_Witness ==
    \E i \in Calls :
        /\ ops[i].prompted /\ ops[i].consent = "denied"
        /\ ops[i].status = 401

\* Request j came after request i, which was admitted by consent with
\* ALLOW_PERMANENT, from the same client to the same path.
AfterPermanent(i, j) ==
    /\ ops[i].op = "dispatch" /\ ops[j].op = "dispatch"
    /\ ops[i].consent = "allow_permanent" /\ ops[i].outcome = "CONSENT_PASS"
    /\ Precedes(i, j)
    /\ ops[j].client_id = ops[i].client_id /\ ops[j].endpoint = ops[i].endpoint

\* C14: after a request was admitted by consent with ALLOW_PERMANENT, a
\* later request of the same client to the same path (no revoke happens in
\* the specifications of requests) is never prompted and writes no grant:
\* it is admitted by the store check, or by its bearer token when it
\* carries one that admits it.
C14_PermanentNoPrompt ==
    \A i \in Calls, j \in Calls :
        AfterPermanent(i, j)
        => /\ ~ops[j].prompted
           /\ ops[j].args = None
           /\ ops[j].entry # None => TheValue(ops[j].entry).action # "grant"
           /\ ops[j].pc = "done"
                 => /\ ops[j].outcome \in {"TOKEN_PASS", "STORE_PASS"}
                    /\ TheValue(ops[j].headers).authorization = None
                          => ops[j].outcome = "STORE_PASS"

\* Request k came after a restart of the service that came after request
\* g was admitted by consent with ALLOW_SESSION, from the same client to the
\* same path.
AfterSessionRestart(g, k) ==
    /\ ops[g].op = "dispatch" /\ ops[k].op = "dispatch"
    /\ ops[g].consent = "allow_session" /\ ops[g].outcome = "CONSENT_PASS"
    /\ ops[k].client_id = ops[g].client_id /\ ops[k].endpoint = ops[g].endpoint
    /\ \E r \in Calls :
          ops[r].op = "restart" /\ Precedes(g, r) /\ Precedes(r, k)

\* C15: a SESSION grant is honored only by the process that issued it:
\* after the service restarts on the same database and secret key, a
\* request for the pair is not admitted by the store check on the SESSION
\* row nor by the token of the grant, and the user is prompted again.
C15_SessionEndsAtRestart ==
    \A g \in Calls, k \in Calls :
        (AfterSessionRestart(g, k) /\ ops[k].pc = "done")
        => /\ ops[k].outcome \notin {"STORE_PASS", "TOKEN_PASS"}
           /\ ops[k].prompted

\* The paths C16 names.
NamedPublic(path) ==
    \/ path \in {"/health", "/capabilities", "/docs", "/openapi.json"}
    \/ StartsWith(path, "/public/")

\* Request i goes through the middleware to a path C16 names.
ToPublic(i) == ops[i].op = "dispatch" /\ NamedPublic(ops[i].endpoint)

\* C16: a request to /health, /capabilities, /docs, /openapi.json or a path
\* under /public/ is passed to its handler whatever its headers: the
\* middleware does not identify the client, validate a token, read the
\* store or prompt, and the permissions table and audit log are unchanged.
C16_PublicPass ==
    /\ [](\A i \in Calls :
             ToPublic(i)
             => /\ ops[i].pc = "done" /\ ops[i].outcome = "PUBLIC_PASS"
                /\ ops[i].handler /\ ops[i].status = 200
                /\ ops[i].client_id = "" /\ ops[i].attached = None
                /\ ops[i].checked_at = None /\ ops[i].selected = None
                /\ ~ops[i].prompted
                /\ ops[i].row = None /\ ops[i].entry = None)
    /\ [][( /\ Len(ops') > Len(ops)
             /\ ops'[Len(ops')].op = "dispatch"
             /\ NamedPublic(ops'[Len(ops')].endpoint) )
             => /\ permissions' = permissions
                /\ audit_log' = audit_log
                /\ prompts' = prompts
                /\ minted' = minted]_vars

\* A request to /health with a non-numeric X-Process-PID and a bearer token
\* that is no token was passed to its handler.
C16_Witness ==
    \E i \in Calls :
        /\ ToPublic(i) /\ ops[i].endpoint = "/health"
        /\ TheValue(ops[i].headers).x_process_pid = Some("abc")
        /\ TheValue(ops[i].headers).authorization # None
        /\ ops[i].handler

\* The kind and the token lifetime C17 gives for a ConsentResult.
KindFor(result) ==
    CASE result = "allow_once" -> "temporary"
      [] result = "allow_session" -> "session"
      [] result = "allow_timed" -> "timed"
      [] result = "allow_permanent" -> "permanent"

HoursFor(result) ==
    CASE result = "allow_timed" -> Some(default_grant_duration_hours)
      [] result = "allow_permanent" -> None
      [] result \in {"allow_once", "allow_session"} -> Some(token_expiry_hours)

\* The claims inside token tok.
ClaimsOf(tok) == from_dict(tok.plaintext.members)

\* C17: on a result other than DENIED the consent handler stores a grant of
\* kind TEMPORARY for ALLOW_ONCE, SESSION for ALLOW_SESSION, TIMED for
\* ALLOW_TIMED and PERMANENT for ALLOW_PERMANENT, and mints the token with
\* expiry default_grant_duration_hours for TIMED, none for PERMANENT and
\* token_expiry_hours for TEMPORARY and SESSION.
C17_ResultToGrant ==
    \A i \in Calls :
        (ops[i].op = "dispatch" /\ ops[i].consent \in ConsentResults \ {"denied"})
        => LET a == TheValue(ops[i].args)
               issued == TheValue(ops[i].at)
               hours == HoursFor(ops[i].consent) IN
           /\ a.grant_type = KindFor(ops[i].consent)
           /\ TheValue(ops[i].row).grant_type = KindFor(ops[i].consent)
           /\ TheValue(ops[i].row).token = a.token
           /\ (ops[i].pc \in {"log", "done"} /\ LastWrite(i))
                 => \E r \in permissions :
                       /\ r.client_id = ops[i].client_id
                       /\ r.endpoint = ops[i].endpoint
                       /\ r.token = a.token
                       /\ r.grant_type = KindFor(ops[i].consent)
           /\ ClaimsOf(a.token).client_id = ops[i].client_id
           /\ ClaimsOf(a.token).endpoint = ops[i].endpoint
           /\ ClaimsOf(a.token).expires_at =
                 IF hours = None THEN None
                 ELSE Some(issued + TheValue(hours) * UnitsPerHour)

\* A dialog returned ALLOW_TIMED; the request was admitted and the table
\* holds a TIMED row with the token minted for it.
C17_Witness ==
    \E i \in Calls :
        /\ ops[i].op = "dispatch" /\ ops[i].consent = "allow_timed"
        /\ ops[i].outcome = "CONSENT_PASS"
        /\ \E r \in permissions :
              r.token = TheValue(ops[i].args).token /\ r.grant_type = "timed"

\* C18: on every backend a prompt nobody answers returns DENIED once
\* timeout_seconds has elapsed and a dismissed dialog returns DENIED; no
\* dialog is on screen, and no request waits for it, beyond the timeout.
C18_TimeoutDenies ==
    \A i \in 1..Len(dialogs) :
        LET d == dialogs[i] IN
        /\ d.elapsed <= d.timeout_seconds
        /\ (~d.open /\ d.event \in {"timeout", "dismiss"}) => d.result = "denied"

\* The buttons that say no, and the buttons that allow.
NegativeButtons == {"No", "Deny"}
AllowButtons == {"Yes", "Allow", "Allow Once", "Allow Always"}

\* The user pressed `button` on the closed dialog i.
Pressed(i, button) ==
    ~dialogs[i].open /\ dialogs[i].event = "click" /\ dialogs[i].button = button

\* C19: on every backend the 'No' or 'Deny' button returns DENIED, an
\* ALLOW_* result is returned only when the user pressed an allow button,
\* and the same button gives the same result whichever backend showed it.
C19_SameChoiceSameResult ==
    \A i \in 1..Len(dialogs) :
        /\ \A b \in NegativeButtons : Pressed(i, b) => dialogs[i].result = "denied"
        /\ (~dialogs[i].open /\ dialogs[i].result # "denied")
              => \E b \in AllowButtons : Pressed(i, b)
        /\ \A j \in 1..Len(dialogs), b \in NegativeButtons \cup AllowButtons :
              (Pressed(i, b) /\ Pressed(j, b))
              => dialogs[i].result = dialogs[j].result

\* The five states in which an admission decision ends.
DispatchOutcomes == {"PUBLIC_PASS", "TOKEN_PASS", "STORE_PASS", "CONSENT_PASS", "DENY"}

\* C20: whatever the request headers (a non-numeric X-Process-PID, an empty
\* or malformed Authorization value, any X-Client-ID), dispatch ends in
\* exactly one of PUBLIC_PASS, TOKEN_PASS, STORE_PASS, CONSENT_PASS and DENY,
\* and no exception leaves it.
C20_NeverRaises ==
    \A i \in Calls :
        (ops[i].op = "dispatch" /\ ops[i].app = "middleware" /\ ops[i].pc = "done")
        => /\ ops[i].outcome \in DispatchOutcomes
           /\ ops[i].status # 500
           /\ ops[i].handler <=> ops[i].outcome # "DENY"

\* C5: check never returns a grant whose expires_at the clock has passed;
\* a check that fetches such a row returns null, the row is no longer in
\* the permissions table afterwards, and the request, having no bearer
\* token to admit it, falls through to consent.
C5_Expiry ==
    \A i \in Calls :
        /\ ops[i].result # None
              => LET stored == TheValue(ops[i].result) IN
                 \/ stored.expires_at = None
                 \/ TheValue(ops[i].checked_at) <= fromisoformat(TheValue(stored.expires_at))
        /\ (FetchedExpired(i) /\ CheckReturned(i))
              => /\ ops[i].result = None
                 /\ \A r \in permissions : r.id # TheValue(ops[i].selected).id
                 /\ ops[i].op = "dispatch"
                       => /\ ops[i].outcome # "STORE_PASS"
                          /\ consent_handler => ops[i].prompted

\* A request without a bearer token found the TEMPORARY grant of an earlier
\* request expired, and was sent to the consent dialog.
C5_Witness ==
    \E i \in Calls :
        /\ ops[i].op = "dispatch"
        /\ TheValue(ops[i].headers).authorization = None
        /\ FetchedExpired(i) /\ CheckReturned(i)
        /\ TheValue(ops[i].selected).grant_type = "temporary"
        /\ ops[i].prompted

\* C21: a request that ends in DENY (401) leaves the permissions table and
\* the audit log as they were: it deleted no row and queued no audit entry,
\* also when the table held an expired grant for its (client_id, path).
C21_DenyLeavesStore ==
    \A i \in Calls :
        (ops[i].op = "dispatch" /\ ops[i].pc = "done" /\ ops[i].outcome = "DENY")
        => ops[i].entry = None

\* A request in which an awaited call raised is not admitted.
FailureNotAdmitted ==
    \A i \in Calls :
        ops[i].failed # ""
        => /\ ops[i].pc = "done" /\ ~ops[i].handler
           /\ ops[i].outcome \notin PassOutcomes \cup {"PUBLIC_PASS"}
           /\ ops[i].status = 500

\* A request admitted through the tkinter fallback was allowed there by the
\* user pressing an allow button.
FallbackAdmitsOnAllow ==
    \A i \in Calls :
        (ops[i].fallback /\ ops[i].consent \in ConsentResults \ {"denied"})
        => ops[i].button \in AllowButtons

\* C22: if the store check, the store grant write or the prompter raises
\* during a request, the request is not admitted: the handler is not invoked
\* and no PASS state results; and a failing native dialog that falls back to
\* the tkinter dialog admits only on an explicit allow answer given there.
C22_FailureNeverAdmits == FailureNotAdmitted /\ FallbackAdmitsOnAllow

(***************************************************************************)
(* Properties of the plugin registry (SpecRegistry).                       *)
(***************************************************************************)
\* This step is a call of register with a plugin whose name is registered.
RegistersKnownName ==
    /\ Len(registry'.calls) > Len(registry.calls)
    /\ registry'.calls[Len(registry'.calls)].op = "register"
    /\ registry'.calls[Len(registry'.calls)].name \in DOMAIN registry.plugins

\* C23: registering a plugin whose name is already registered changes
\* nothing: the plugin map, the endpoint index, both route sets and the
\* capabilities listing are unchanged and on_load is not called again.
C23_DoubleRegisterNoOp ==
    [][RegistersKnownName
       => /\ registry'.plugins = registry.plugins
          /\ registry'.endpoints = registry.endpoints
          /\ registry'.public_routes = registry.public_routes
          /\ registry'.protected_routes = registry.protected_routes
          /\ get_capabilities(registry') = get_capabilities(registry)
          /\ registry'.hooks = registry.hooks]_vars

\* register was called with another Plugin object of a registered name.
C23_Witness ==
    \E k \in 1..Len(registry.calls) :
        /\ registry.calls[k].op = "register" /\ registry.calls[k].known
        /\ registry.calls[k].name \in DOMAIN registry.plugins
        /\ registry.plugins[registry.calls[k].name] # TheValue(registry.calls[k].plugin)

\* The routes of both routers that were added for the plugin named n.
RoutesOf(n) ==
    {<<"public", k>> : k \in {j \in 1..Len(registry.public_routes) :
                                registry.public_routes[j].tags = n}}
    \cup {<<"protected", k>> : k \in {j \in 1..Len(registry.protected_routes) :
                                registry.protected_routes[j].tags = n}}

\* C24: register(p) followed by unregister(p.name) restores the registry:
\* while the name is not registered the plugin map, the endpoint index and
\* both route sets hold nothing of the plugin; the endpoints of a registered
\* plugin are all in the index; and a plugin registered again has the routes
\* of a first registration, one for each of its endpoints.
C24_UnregisterReverses ==
    \A n \in PluginNames :
        IF n \notin DOMAIN registry.plugins
        THEN /\ \A path \in DOMAIN registry.endpoints :
                   ~StartsWith(path, "/" \o n \o "/")
             /\ RoutesOf(n) = {}
        ELSE LET plugin == registry.plugins[n] IN
             /\ \A k \in 1..Len(plugin.endpoints) :
                   /\ FullPath(n, plugin.endpoints[k]) \in DOMAIN registry.endpoints
                   /\ registry.endpoints[FullPath(n, plugin.endpoints[k])]
                         = plugin.endpoints[k]
             /\ Cardinality(RoutesOf(n)) = Len(plugin.endpoints)

\* Request i goes to the full path of a registered endpoint of kind PUBLIC.
ToPublicEndpoint(i) ==
    /\ ops[i].op = "dispatch"
    /\ ops[i].endpoint \in DOMAIN registry.endpoints
    /\ registry.endpoints[ops[i].endpoint].endpoint_type = "public"

\* C25: a request to the full path of a registered endpoint of kind PUBLIC
\* ("/" + plugin name + local path, as /demo/ping) is PUBLIC_PASS: it is
\* admitted without a token, a stored grant or a prompt.
C25_PublicEndpointPass ==
    \A i \in Calls :
        ToPublicEndpoint(i)
        => /\ ops[i].pc = "done" /\ ops[i].outcome = "PUBLIC_PASS"
           /\ ops[i].handler
           /\ ops[i].checked_at = None /\ ~ops[i].prompted

(***************************************************************************)
(* Properties of the persisted secret (SpecSecret).                        *)
(***************************************************************************)
\* C26: _load_or_create_secret returns the bytes of <data_dir>/.secret
\* unchanged whenever the file exists, and writes nothing; only when the
\* file is absent does it generate and write a key.  Every start after the
\* first uses the first start's key, and a token minted before a restart
\* validates after it.
C26_SecretPersists ==
    /\ \A k \in 1..Len(service.starts) :
          LET s == service.starts[k] IN
          /\ s.before # None
                => s.returned = TheValue(s.before) /\ s.after = s.before /\ ~s.wrote
          /\ s.before = None => s.wrote /\ s.after = Some(s.returned)
          /\ s.returned = service.starts[1].returned
    /\ \A v \in validated, m \in minted :
          (v.token = m.token /\ m.expires_in_hours # Some(0) /\ BeforeExpiry(v, m))
          => v.result.claims # None
                /\ TheValue(v.result.claims).client_id = m.client_id

\* A token minted in the first start was validated, and accepted, in a
\* later start that found the secret file written by the first.
C26_Witness ==
    /\ service.minted_in = 1 /\ service.validated_in > 1
    /\ service.starts[1].before = None
    /\ service.starts[service.validated_in].before = Some(service.starts[1].returned)
    /\ \E v \in validated, m \in minted :
          v.token = m.token /\ v.result.claims # None

(***************************************************************************)
(* Properties of the audit log and of overlapping store calls (SpecStore). *)
(***************************************************************************)
\* The positions in the audit log of the entries of (c, e); the entry of a
\* revoke_all of c, written with endpoint "*", counts for every pair of c.
EntriesOf(c, e) ==
    {k \in 1..Len(audit_log) :
        audit_log[k].client_id = c /\ audit_log[k].endpoint \in {e, "*"}}

\* The audit entries of (c, e) have strictly increasing timestamps.
TimestampsIncrease(c, e) ==
    \A k1, k2 \in EntriesOf(c, e) :
        k1 < k2 => fromisoformat(audit_log[k1].timestamp)
                      < fromisoformat(audit_log[k2].timestamp)

\* No call is in flight, and the last audit entry of (c, e) is 'grant'
\* exactly when the table holds a row of the pair.
LastEntryTellsRow(c, e) ==
    InFlight = {}
    => LET entries == EntriesOf(c, e)
           last == CHOOSE k \in entries : \A k2 \in entries : k2 <= k IN
       (entries # {} /\ audit_log[last].action = "grant") <=> RowsOf(c, e) # {}

\* C27: for each (client_id, endpoint) the audit entries appear in the order
\* in which their grants and revokes took effect on the table, with strictly
\* increasing timestamps, also when calls for the pair overlap; the last
\* audit entry of a pair is 'grant' exactly when a row of the pair is in the
\* table.
C27_AuditOrder ==
    \A x \in StorePairs :
        TimestampsIncrease(x[1], x[2]) /\ LastEntryTellsRow(x[1], x[2])

\* Check k and grant g of one pair overlapped in time, both have returned,
\* the row k read was not the row of g, the grant of g has not expired, and
\* no other call wrote to the pair since g began.
CheckOverlapsGrant(k, g) ==
    /\ ops[k].op = "check" /\ GrantFor(g, k)
    /\ ops[k].pc = "done" /\ ops[g].pc = "done"
    /\ ~Precedes(g, k) /\ ~Precedes(k, g)
    /\ \A sel \in ops[k].selected : sel.token # TheValue(ops[g].args).token
    /\ ~RowExpired(TheValue(ops[g].row), now)
    /\ OnlyEarlierWrites(g, {g, k})

\* C28: a check(c, e) that runs concurrently with a grant(c, e, ...) never
\* deletes the newly granted row: eviction removes only the expired row the
\* check read, so after both calls the fresh grant is in the table.
C28_EvictionSparesFreshGrant ==
    \A k \in Calls, g \in Calls :
        CheckOverlapsGrant(k, g)
        => \E r \in RowsOf(ops[g].client_id, ops[g].endpoint) : HoldsGrant(r, g)

(***************************************************************************)
(* Properties of the middleware after a revocation (SpecRevoke).           *)
(***************************************************************************)
\* Request j of the client began after revocation r of its pair had
\* returned, and every consent approval other than its own was given in a
\* request that had returned before r began.
AfterRevoke(r, j) ==
    /\ ops[r].op \in {"revoke", "revoke_all"}
    /\ ops[j].op = "dispatch" /\ ops[j].pc = "done"
    /\ Affects(r, ops[j].client_id, ops[j].endpoint)
    /\ Precedes(r, j)
    /\ \A i \in Calls \ {j} :
          ops[i].consent \in ConsentResults \ {"denied"} => Precedes(i, r)

\* C29: after revoke(c, e) or revoke_all(c) has completed, no request of c
\* to e is admitted until the user approves a new consent, even if the
\* request presents the bearer token minted for the revoked grant.
C29_RevokedStaysOut ==
    \A r \in Calls, j \in Calls :
        AfterRevoke(r, j)
        => /\ ops[j].outcome \in {"DENY", "CONSENT_PASS"}
           /\ ops[j].handler => ops[j].consent \in ConsentResults \ {"denied"}

\* C30: a bearer token admits requests only to the endpoint named in its
\* claims: a request to path p that presents a valid token of the same
\* client whose claims.endpoint differs from p is not TOKEN_PASS.
C30_TokenNamesEndpoint ==
    \A i \in Calls :
        (ops[i].op = "dispatch" /\ ops[i].outcome = "TOKEN_PASS")
        => ClaimsOf(TheValue(TheValue(ops[i].headers).authorization).credentials).endpoint
              = ops[i].endpoint

(***************************************************************************)
(* Properties of the token of a TEMPORARY grant (SpecHandler).             *)
(***************************************************************************)
\* In this step a request arrives that presents the token minted for the
\* ALLOW_ONCE grant of request i, more than 5 minutes after that grant was
\* issued.
PresentsStaleOnceToken(i) ==
    /\ Len(ops') > Len(ops)
    /\ ops[i].op = "dispatch" /\ ops[i].consent = "allow_once"
    /\ ops[i].outcome = "CONSENT_PASS"
    /\ now > TheValue(ops[i].at) + TemporaryLifetime
    /\ LET o == ops'[Len(ops')] IN
       /\ o.op = "dispatch"
       /\ TheValue(o.headers).authorization # None
       /\ TheValue(TheValue(o.headers).authorization).credentials
             = TheValue(ops[i].args).token

\* C31: the token minted for an ALLOW_ONCE (TEMPORARY) grant stops admitting
\* requests when the grant does: more than 5 minutes after issuance a
\* request that presents the token is not admitted without a new prompt.
C31_OnceTokenEndsWithGrant ==
    [][\A i \in Calls :
          PresentsStaleOnceToken(i)
          => ops'[Len(ops')].outcome \notin {"TOKEN_PASS", "STORE_PASS"}]_vars

\* C32: no endpoint that a plugin registers with kind PROTECTED is ever
\* admitted as PUBLIC_PASS, whatever the plugin's name and the endpoint's
\* local path, also for a plugin named 'public', whose full paths begin with
\* /public/.
C32_ProtectedNeverPublic ==
    \A i \in Calls :
        ( /\ ops[i].op = "dispatch"
          /\ ops[i].endpoint \in DOMAIN registry.endpoints
          /\ registry.endpoints[ops[i].endpoint].endpoint_type = "protected" )
        => ops[i].outcome # "PUBLIC_PASS"

\* C33: when check(c, e) finds an expired row and deletes it, the audit log
\* is unchanged: no step of a check call, from its SELECT to its return,
\* appends an audit entry.
C33_EvictionWritesNoAudit ==
    [][\A i \in Calls :
          (ops[i].op = "check" /\ ops[i].pc # "done" /\ ops'[i] # ops[i])
          => audit_log' = audit_log]_vars

\* The number of entries of `seq` that satisfy Test.
CountEntries(seq, Test(_)) == Cardinality({k \in 1..Len(seq) : Test(seq[k])})

IsGrantEntry(entry) == entry.action = "grant"

\* The grant calls whose INSERT OR REPLACE is committed.
CommittedGrants == {i \in Calls : ops[i].op = "grant" /\ ops[i].pc \in {"log", "done"}}

\* C34: grant writes the permissions row and its audit 'grant' entry in one
\* transaction: in no state is the row of a grant committed while its audit
\* entry is not, so the log holds one 'grant' entry per committed grant.
C34_GrantRowAndAuditTogether ==
    CountEntries(audit_log, IsGrantEntry) = Cardinality(CommittedGrants)

\* C35: if the audit-log write of a grant or a revoke fails, the primary
\* action still succeeds: the store method returns normally to its caller,
\* so the request whose audit write failed does not end in an error, and a
\* request whose grant was being logged is admitted.
C35_AuditFailureTolerated ==
    \A i \in Calls :
        (ops[i].op = "dispatch" /\ ops[i].failed = "log")
        => /\ ops[i].outcome # "ERROR"
           /\ ops[i].fn = "grant" => ops[i].outcome = "CONSENT_PASS"

IsRevokeEntry(entry) == entry.action = "revoke"

IsRevokeAllEntry(entry) == entry.action = "revoke_all"

\* The finished direct calls of the store method `op`.
Finished(op) == {i \in Calls : ops[i].op = op /\ ops[i].pc = "done"}

\* The finished check calls that evicted an expired row through
\* revoke_permission.
FinishedEvictions == {i \in Finished("check") : ops[i].entry # None}

\* One audit entry per finished call, of the action of that call.
OneEntryPerCall ==
    /\ CountEntries(audit_log, IsGrantEntry) = Cardinality(Finished("grant"))
    /\ CountEntries(audit_log, IsRevokeEntry)
          = Cardinality(Finished("revoke")) + Cardinality(FinishedEvictions)
    /\ CountEntries(audit_log, IsRevokeAllEntry) = Cardinality(Finished("revoke_all"))
    /\ \A k \in 1..Len(audit_log) :
          IsRevokeAllEntry(audit_log[k]) => audit_log[k].endpoint = "*"

\* A step leaves the entries already in the log as they are and appends at
\* most one.
AppendOnly ==
    /\ Len(audit_log') \in {Len(audit_log), Len(audit_log) + 1}
    /\ SubSeq(audit_log', 1, Len(audit_log)) = audit_log

\* C36: every grant call appends exactly one 'grant' audit entry, every
\* revoke call exactly one 'revoke' entry even when no row matched, every
\* revoke_all(c) exactly one 'revoke_all' entry with endpoint '*' however
\* many rows it deleted; and no operation changes or removes an entry.
C36_OneAuditEntryPerCall == []OneEntryPerCall /\ [][AppendOnly]_vars

\* A revoke that matched no row, then the only grant, and a revoke_all
\* have all finished and logged.
C36_Witness ==
    \E r \in Finished("revoke"), g \in Finished("grant"), a \in Finished("revoke_all") :
        /\ Precedes(r, g)
        /\ Len(audit_log) = 3

\* The expires_at column of a grant of `grant_type` made at time t with
\* argument duration_hours, as the documentation of grant gives it.
DocumentedExpiry(grant_type, duration_hours, t) ==
    IF grant_type = "temporary" THEN Some(isoformat(t + TemporaryLifetime))
    ELSE IF grant_type = "timed" /\ duration_hours # None
    THEN Some(isoformat(t + TheValue(duration_hours) * UnitsPerHour))
    ELSE None

\* C37: grant stores expires_at = now + 5 minutes for TEMPORARY, now +
\* duration_hours for TIMED, and null for SESSION and PERMANENT, for every
\* value of the duration_hours argument; every stored TIMED grant has a
\* non-null expires_at.
C37_StoredExpiry ==
    /\ \A i \in Calls :
          (ops[i].op = "grant" /\ TheValue(ops[i].args).grant_type # "timed")
          => TheValue(ops[i].row).expires_at
                = DocumentedExpiry(TheValue(ops[i].args).grant_type,
                                   TheValue(ops[i].args).duration_hours,
                                   TheValue(ops[i].at))
    /\ \A i \in Calls :
          (ops[i].op = "grant" /\ TheValue(ops[i].args).grant_type = "timed"
              /\ TheValue(ops[i].args).duration_hours # None)
          => TheValue(ops[i].row).expires_at
                = DocumentedExpiry("timed", TheValue(ops[i].args).duration_hours,
                                   TheValue(ops[i].at))
    /\ \A r \in permissions : r.grant_type = "timed" => r.expires_at # None

\* C38: in every reachable state in which <data_dir>/.secret exists and
\* holds key bytes, its file mode is 0600 (owner read/write only), also in
\* the states during the first-boot creation of the file.
C38_SecretMode0600 ==
    service.secret_file # None => service.secret_mode = Mode0600

\* Request g went through consent and its grant for the pair of request i
\* is stored.
CreatedGrantOf(g, i) ==
    /\ ops[g].op = "dispatch" /\ ops[g].fn = "grant"
    /\ ops[g].pc \in {"log", "done"}
    /\ ops[g].client_id = ops[i].client_id /\ ops[g].endpoint = ops[i].endpoint

\* C39: the permissions value that check returns, and that the middleware
\* attaches to the request on STORE_PASS, is the list of strings that was
\* passed to grant: it equals what CONSENT_PASS attaches for the request
\* that created the grant, not an encoded form of it.
C39_StorePassAttachesList ==
    \A i \in Calls :
        (ops[i].op = "dispatch" /\ ops[i].outcome = "STORE_PASS")
        => \A g \in Calls :
              CreatedGrantOf(g, i) => ops[i].attached = AfterGrant(ops[g]).attached

\* This step is the arrival of a request whose Authorization header has the
\* scheme word `word` and a token that is valid now for the client_id
\* derived from the request.
ArrivesWithValidToken(word) ==
    /\ Len(ops') > Len(ops)
    /\ LET o == ops'[Len(ops')] IN
       /\ o.op = "dispatch"
       /\ TheValue(o.headers).authorization # None
       /\ TheValue(TheValue(o.headers).authorization).lead = word
       /\ TokenAdmits(validate_token(ServerKey,
                         TheValue(TheValue(o.headers).authorization).credentials, now),
                      identify_client(TheValue(o.headers)).client_id)

\* C40: the scheme word of the Authorization header is matched without
\* regard to case: a request with 'bearer <t>' or 'BEARER <t>' and a valid
\* token t for the derived client_id is TOKEN_PASS exactly as with
\* 'Bearer <t>'.
C40_SchemeAnyCase ==
    [][\A word \in SchemeWords :
          ArrivesWithValidToken(word) => ops'[Len(ops')].outcome = "TOKEN_PASS"]_vars

====
